---- MODULE Spec2Model ----
(***************************************************************************)
(* Sentiment platform: the ingestion -> analysis -> persistence pipeline.  *)
(*                                                                         *)
(* worker/worker.py     SentimentWorker.run / process_message              *)
(* worker/processor.py  save_post_and_analysis                             *)
(* backend/services/sentiment_analyser.py  SentimentAnalyzer               *)
(* backend/models/models.py   social_media_posts / sentiment_analysis      *)
(*                                                                         *)
(* A coroutine of asyncio.gather is cut into steps at its await points;    *)
(* what follows an await without another await belongs to the same step.   *)
(* An optional value (Python None) is a sequence of length 0 or 1.         *)
(* Confidence scores are integers in hundredths (0.95 is 95).              *)
(*                                                                         *)
(* What may fail: either classifier call, every statement of the database  *)
(* transaction, the exit of "async with db_session_maker()" once the save  *)
(* has used the session, redis.publish and every xack, and (in RunSpec)    *)
(* xreadgroup. An exception that reaches the outer handler of              *)
(* process_message and the xack of that handler are one step: nothing      *)
(* changes between the two.                                                *)
(*                                                                         *)
(* The database is PostgreSQL (config.py): an INSERT of a post_id that an  *)
(* open transaction has inserted waits for that transaction to end.        *)
(*                                                                         *)
(* xreadgroup is only ever called with id ">", which answers with entries  *)
(* never delivered to the group: no step delivers a pending entry again.   *)
(*                                                                         *)
(* Beside the pipeline:                                                    *)
(* backend/services/alerting.py    AlertService (AlertSpec)                *)
(* backend/api/routes.py           ConnectionManager, websocket_endpoint   *)
(* backend/services/aggregrator.py get_distribution (GatewaySpec)          *)
(*                                                                         *)
(* Spec and FairSpec are the worker with batch_size = BatchSize; StoreSpec *)
(* is that worker fed with the well-formed post alone, PoisonSpec with the *)
(* entries that cannot be stored beside it, BatchSpec is StoreSpec at each *)
(* batch size up to BatchSize; RunSpec is run(batch_size=1) with a log     *)
(* connection that may fail; AlertSpec is one monitoring loop over every   *)
(* window row;                                                             *)
(* GatewaySpec is the push gateway with clients that come and go;          *)
(* BroadcastSpec is manager.broadcast over every list of connections.      *)
(* Each of them leaves the variables of the other components alone.        *)
(*                                                                         *)
(* The library is SQLAlchemy 2 (models.py and processor.py import          *)
(* async_sessionmaker). The window queries spell their conditional sums as *)
(* func.case(..., else_=0), a call that raises TypeError while the         *)
(* statement is built: every function that builds such a statement raises  *)
(* there, and what it does with the answer of its query is kept as the     *)
(* branch that is taken if the statement is built.                         *)
(*                                                                         *)
(* In the gateway every await is a step: the awaited operation and the     *)
(* statements up to the next await. A handler that an exception leaves is  *)
(* suspended in "finally: await redis_client.close()" with its socket and  *)
(* its subscription as they were, and is over when that returns. The hello *)
(* frame is handed to its socket in the step that registers the socket: no *)
(* await lies between the two, and a socket sends its frames in the order  *)
(* in which send_json was called on it.                                    *)
(*                                                                         *)
(* The read side:                                                          *)
(* backend/api/routes.py           health_check, get_posts,                *)
(*                                 get_sentiment_aggregate,                *)
(*                                 get_sentiment_distribution              *)
(* backend/services/aggregrator.py get_aggregate, get_distribution and     *)
(*                                 their cache in Redis                    *)
(*                                                                         *)
(* QuerySpec serves up to MaxRequests requests, one after the other, over  *)
(* every Store of up to MaxEntries posts with their analyses, while the    *)
(* worker persists more. DistributionCacheSpec and AggregateCacheSpec are  *)
(* the aggregator with use_cache over a clock that moves by whole minutes  *)
(* (MaxMinutes of them): an entry written with a ttl of 60 seconds lives   *)
(* for one unit of that clock. SQL NULL is None, a value that is no count. *)
(* A value that went through json.dumps is a blob until json.loads.        *)
(* TtlSpec asks both cached functions over that clock.                     *)
(*                                                                         *)
(* AnalyzerSpec is one process_message call over models that answer any    *)
(* label and any score (the variable classifier); HelloSpec is the push    *)
(* gateway while clients connect and one post event is published.          *)
(*                                                                         *)
(* worker/processor.py  SentimentWorker.run (ProcessorSpec): the loop that *)
(* reads the stream with XREAD from its own cursor, in the variable        *)
(* processor.                                                              *)
(***************************************************************************)
EXTENDS Integers, Sequences, FiniteSets, TLC

\* ------------------------------------------------------------- bounds
\* entries the producer appends to the stream in one behaviour
MaxEntries == 2
\* batch_size handed to run() (the code's default is 10)
BatchSize == 2
\* analyses with one label in the window of the alert monitor
MaxCount == 10
\* clients that connect to /ws/sentiment
MaxSockets == 2
\* post events published on sentiment_updates while clients connect
MaxEvents == 2

\* ------------------------------------------------------------- texts
Blank     == <<" ", " ">>
ShortText == <<"o", "k">>
LoveText  == <<"I", " ", "l", "o", "v", "e", " ", "i", "t", "!", "!">>

Whitespace == {" "}

\* str.strip() leaves the empty string iff every character is whitespace
strip_is_empty(text) == \A i \in 1..Len(text) : text[i] \in Whitespace

\* text[:n]
Prefix(text, n) == SubSeq(text, 1, IF Len(text) < n THEN Len(text) ELSE n)

\* text[:512] of analyze_sentiment / analyze_emotion
TruncateLen == 512
\* content[:120] of the published preview
PreviewLen == 120
\* len(truncated) < 10: "very short text"
ShortLen == 10

\* ------------------------------------------------------------- stream entries
required_keys == {"post_id", "source", "content", "author", "created_at"}

\* a well-formed post, a second one with a very short text, an entry without author,
\* an entry whose created_at is no ISO-8601 instant, an entry with a blank content
M1 == [post_id |-> "p1", source |-> "twitter", content |-> LoveText,
       author |-> "u1", created_at |-> "2024-01-01T00:00:00Z"]
M2 == [post_id |-> "p2", source |-> "reddit", content |-> ShortText,
       author |-> "u2", created_at |-> "2024-01-01T00:05:00+00:00"]
M3 == [post_id |-> "p3", source |-> "twitter", content |-> LoveText,
       created_at |-> "2024-01-01T00:00:00Z"]
M4 == [post_id |-> "p4", source |-> "twitter", content |-> LoveText,
       author |-> "u1", created_at |-> "yesterday"]
M5 == [post_id |-> "p5", source |-> "news", content |-> Blank,
       author |-> "u4", created_at |-> "2024-01-01T00:00:00Z"]

Messages == {M1, M2, M3, M4, M5}

\* decoded["created_at"].replace("Z", "+00:00")
replace_Z(s) ==
    CASE s = "2024-01-01T00:00:00Z" -> "2024-01-01T00:00:00+00:00"
      [] OTHER -> s

\* datetime.fromisoformat: the instant (epoch seconds), or <<>> for ValueError
fromisoformat(s) ==
    CASE s = "2024-01-01T00:00:00+00:00" -> <<1704067200>>
      [] s = "2024-01-01T00:05:00+00:00" -> <<1704067500>>
      [] OTHER -> <<>>

\* ------------------------------------------------------------- SentimentAnalyzer
\* the models behind the analyzers: the two local pipelines and the remote LLM
VARIABLE classifier

\* processor.py, SentimentWorker.run: where the loop is, its cursor last_id, what is
\* left of the response it iterates, and what it did (entries taken up, entries
\* whose analysis raised, entries of a response given up, entries handed to
\* save_post_and_analysis)
VARIABLE processor

\* SentimentWorker.run is not started
ProcessorOff == [pc |-> "off", last_id |-> 0, messages |-> <<>>, taken |-> <<>>,
                 raised |-> {}, given_up |-> {}, saved |-> <<>>]

lower_char(c) ==
    CASE c = "P" -> "p" [] c = "O" -> "o" [] c = "S" -> "s" [] c = "I" -> "i"
      [] c = "T" -> "t" [] c = "V" -> "v" [] c = "E" -> "e" [] c = "N" -> "n"
      [] c = "G" -> "g" [] c = "A" -> "a" [] c = "U" -> "u" [] c = "R" -> "r"
      [] c = "L" -> "l" [] c = "B" -> "b"
      [] OTHER -> c

lower(label) == [i \in 1..Len(label) |-> lower_char(label[i])]

\* sub in label
Contains(label, sub) ==
    \E i \in 1..(Len(label) - Len(sub) + 1) :
        SubSeq(label, i, i + Len(sub) - 1) = sub

_normalize_sentiment_label(label) ==
    IF Contains(lower(label), <<"p", "o", "s">>) THEN "positive"
    ELSE IF Contains(lower(label), <<"n", "e", "g">>) THEN "negative"
    ELSE "neutral"

Min(a, b) == IF a < b THEN a ELSE b
Max(a, b) == IF a > b THEN a ELSE b

\* max(0.0, float(score)): no upper limit
_clip_confidence_no_cap(score) == Max(0, score)

\* max(0.0, min(float(score), 1.0)), in hundredths
_clip_confidence(score) == Max(0, Min(score, 100))

\* The models are opaque. classifier = SampleModels: they answer the sample texts as
\* written below; classifier = <<c>>: they answer c whatever the text.
SampleModels == <<>>

sentiment_pipeline(text) ==
    IF classifier /= SampleModels THEN classifier[1].sentiment_pipeline
    ELSE CASE text = LoveText -> [label |-> <<"P","O","S","I","T","I","V","E">>, score |-> 95]
           [] OTHER           -> [label |-> <<"L","A","B","E","L","_","1">>, score |-> 60]

emotion_pipeline(text) ==
    IF classifier /= SampleModels THEN classifier[1].emotion_pipeline
    ELSE CASE text = LoveText -> << [label |-> "anger", score |-> 2], [label |-> "JOY", score |-> 91],
                                    [label |-> "neutral", score |-> 7] >>
           [] OTHER           -> << [label |-> "neutral", score |-> 100] >>

LocalModelName   == "distilbert-base-uncased-finetuned-sst-2-english"
EmotionModelName == "j-hartmann/emotion-english-distilroberta-base"
ApiModel         == "llama-3.1-8b-instant"

\* What the remote LLM answers: the content of its message. is_object: json.loads
\* makes a dict of it; sentiment_label and confidence_score: the keys the dict has
\* (<<>>: the key is absent); number: float() takes the confidence.
Confidence(value) == <<[number |-> TRUE, value |-> value]>>

external_reply(text) ==
    IF classifier /= SampleModels THEN classifier[1].external_reply
    ELSE CASE text = LoveText -> [is_object        |-> TRUE,
                                  sentiment_label  |-> << <<"P","o","s","i","t","i","v","e">> >>,
                                  confidence_score |-> Confidence(80)]
           [] OTHER           -> [is_object        |-> TRUE,
                                  sentiment_label  |-> << <<"N","e","g","a","t","i","v","e">> >>,
                                  confidence_score |-> Confidence(120)]

\* analyze_sentiment raises ValueError before it calls any model
text_rejected(text) == strip_is_empty(text)

\* analyze_sentiment, model_type == "local", the pipeline having answered
analyze_sentiment_local(text) ==
    LET result == sentiment_pipeline(Prefix(text, TruncateLen)) IN
    [sentiment_label  |-> _normalize_sentiment_label(result.label),
     confidence_score |-> _clip_confidence(result.score),
     model_name       |-> LocalModelName]

\* analyze_sentiment, model_type == "external", the HTTP call (if any) having answered:
\* lines 131-137, whatever json.loads, .lower() or float() raises gives neutral, 0.5
analyze_sentiment_external(text, has_key) ==
    IF ~has_key
    THEN [sentiment_label |-> "neutral", confidence_score |-> 50, model_name |-> ApiModel]
    ELSE LET content == external_reply(Prefix(text, TruncateLen))
             raised  == \/ ~content.is_object
                        \/ /\ content.confidence_score /= <<>>
                           /\ ~content.confidence_score[1].number
             label   == IF content.sentiment_label = <<>> THEN <<"n","e","u","t","r","a","l">>
                        ELSE content.sentiment_label[1]
             score   == IF content.confidence_score = <<>> THEN 50
                        ELSE content.confidence_score[1].value
         IN  IF raised
             THEN [sentiment_label |-> "neutral", confidence_score |-> 50, model_name |-> ApiModel]
             ELSE [sentiment_label  |-> _normalize_sentiment_label(label),
                   confidence_score |-> _clip_confidence(score),
                   model_name       |-> ApiModel]

lower_str(s) ==
    CASE s = "JOY" -> "joy" [] s = "ANGER" -> "anger" [] s = "Happiness" -> "happiness"
      [] s = "Disgust" -> "disgust" [] OTHER -> s

\* the loop over scores: the first item with the strictly greatest score
RECURSIVE best_of(_, _, _, _)
best_of(scores, i, best_label, best_score) ==
    IF i > Len(scores) THEN [label |-> best_label, score |-> best_score]
    ELSE IF scores[i].score > best_score
         THEN best_of(scores, i + 1, <<lower_str(scores[i].label)>>, scores[i].score)
         ELSE best_of(scores, i + 1, best_label, best_score)

emotion_mapping(best_label) ==
    IF Len(best_label) = 0 THEN "neutral"
    ELSE LET l == best_label[1] IN
         CASE l = "joy" -> "joy" [] l = "happiness" -> "joy" [] l = "sadness" -> "sadness"
           [] l = "anger" -> "anger" [] l = "fear" -> "fear" [] l = "surprise" -> "surprise"
           [] l = "neutral" -> "neutral"
           [] OTHER -> "neutral"

\* analyze_emotion, model_type == "local", needing the pipeline iff the text is not short
emotion_needs_pipeline(text) == ~(Len(Prefix(text, TruncateLen)) < ShortLen)

analyze_emotion_local(text) ==
    LET truncated == Prefix(text, TruncateLen) IN
    IF Len(truncated) < ShortLen
    THEN [emotion |-> "neutral", confidence_score |-> 100, model_name |-> EmotionModelName]
    ELSE LET best == best_of(emotion_pipeline(truncated), 1, <<>>, -100) IN
         [emotion          |-> emotion_mapping(best.label),
          confidence_score |-> _clip_confidence(best.score),
          model_name       |-> EmotionModelName]

\* EXTERNAL_LLM_API_KEY is configured (Settings.external_llm_api_key has no default)
api_key == TRUE

\* ------------------------------------------------------------- state
VARIABLES
    stream,              \* the Redis stream: entry e is stream[e]
    last_delivered,      \* the group's last-delivered id (what ">" reads after)
    acked,               \* entries XACKed for the group
    calls,               \* calls[e]: the process_message call for entry e
    posts,               \* table social_media_posts, committed rows
    analyses,            \* table sentiment_analysis, committed rows
    now,                 \* the clock read by datetime.utcnow
    pubsub,              \* payloads published on channel sentiment_updates
    messages_processed,
    messages_failed,
    run_pc,              \* where run() is: "read" or "gather"
    backoff,             \* run()'s local: the delay of the next sleep
    slept,               \* the delay of the last sleep since the last gathered batch, 0: none
    polls,               \* parity of the empty answers of xreadgroup since the last batch
    batch_size,          \* run(batch_size): the count of every xreadgroup
    alert_row,           \* AlertService: the row the window query of check_thresholds answers
    alert_pc,            \* where run_monitoring_loop is
    alert,               \* what check_thresholds returned: <<>> is None
    alerts,              \* table sentiment_alerts
    active_connections,  \* ConnectionManager.active_connections, a list of sockets
    websockets,          \* websockets[w]: the socket's state and the frames its client got
    handler,             \* handler[w]: where websocket_endpoint is for socket w
    subscribed,          \* the sockets whose handler's pubsub is subscribed to the channel
    inbox,               \* inbox[w]: messages of the channel that pubsub.listen() has to yield
    updates_loop,        \* updates_loop[w]: where the handler's updates_loop is
    metrics_loop,        \* metrics_loop[w]: where the handler's metrics_loop is, and its results
    broadcasts,          \* broadcasts[w][loop]: the manager.broadcast call of that loop
    cache,               \* Redis keys of the aggregator: cache[key] is <<>> or <<entry>>
    request,             \* the query being served: <<>> or <<its arguments and locals>>
    responses            \* what the queries served so far returned or raised

vars == <<stream, last_delivered, acked, calls, posts, analyses, now, pubsub,
          messages_processed, messages_failed, run_pc, backoff, slept, polls, batch_size,
          alert_row, alert_pc, alert, alerts,
          active_connections, websockets, handler, subscribed, inbox, updates_loop,
          metrics_loop, broadcasts, cache, request, responses, classifier, processor>>

worker_vars == <<stream, last_delivered, acked, calls, posts, analyses, now, pubsub,
                 messages_processed, messages_failed, run_pc, backoff, slept, polls,
                 batch_size>>

alert_vars == <<alert_row, alert_pc, alert, alerts>>

gateway_vars == <<active_connections, websockets, handler, subscribed, inbox,
                  updates_loop, metrics_loop, broadcasts>>

query_vars == <<cache, request, responses>>

\* what no step of the worker or of the producer changes
outside == <<batch_size, classifier, processor, alert_vars, gateway_vars, query_vars>>

Entries == 1..MaxEntries

Sockets == 1..MaxSockets

\* the two coroutines websocket_endpoint gathers
Loops == {"updates", "metrics"}

\* a process_message call that has not been made
\* pc, the locals (sentiment_result, emotion_result, the open transaction), and what
\* the call did: classifier calls made, how save_post_and_analysis ended ("committed",
\* or the exception it printed), how publish ended, what the inner handler caught
\* (db_exc) and what the outer handler caught (exc), how its last xack ended, why
\* and with what it returned
NoCall == [pc |-> "idle", sentiment |-> <<>>, emotion |-> <<>>, session |-> <<>>,
           classifier_calls |-> 0, saved |-> "none", publish |-> "none",
           db_exc |-> "none", exc |-> "none", xack |-> "none",
           outcome |-> "none", ret |-> "none"]

\* the call returns: its locals are gone
Return(call, outcome, ret) ==
    [call EXCEPT !.pc = "done", !.sentiment = <<>>, !.emotion = <<>>, !.session = <<>>,
                 !.outcome = outcome, !.ret = ret]

InFlight(e) == calls[e].pc \notin {"idle", "done"}

\* the group's pending entries list: delivered and not acknowledged
Pending == {e \in 1..last_delivered : e \notin acked}

\* SentimentWorker.__init__ and the entry of run(): nothing read, nothing stored
WorkerStart ==
    /\ stream = <<>>
    /\ last_delivered = 0
    /\ acked = {}
    /\ calls = [e \in Entries |-> NoCall]
    /\ posts = <<>>
    /\ analyses = <<>>
    /\ now = 1
    /\ pubsub = <<>>
    /\ classifier = SampleModels
    /\ processor = ProcessorOff
    /\ messages_processed = 0
    /\ messages_failed = 0
    /\ run_pc = "read"
    /\ backoff = 1
    /\ slept = 0
    /\ polls = 0

\* the alert monitor is not started
AlertOff ==
    /\ alert_row = [positive |-> 0, negative |-> 0, neutral |-> 0, total |-> 0]
    /\ alert_pc = "off"
    /\ alert = <<>>
    /\ alerts = <<>>

\* no query is served and the cache is empty
QueriesOff ==
    /\ cache = <<>>
    /\ request = <<>>
    /\ responses = <<>>

\* the push gateway after import: "manager = ConnectionManager()", no connection yet
NoBroadcast == [message |-> <<>>, snapshot |-> <<>>, i |-> 0]

GatewayStart ==
    /\ active_connections = <<>>
    /\ websockets = [w \in Sockets |-> [state |-> "none", received |-> <<>>]]
    /\ handler = [w \in Sockets |-> [pc |-> "idle", raised |-> "none"]]
    /\ subscribed = {}
    /\ inbox = [w \in Sockets |-> <<>>]
    /\ updates_loop = [w \in Sockets |-> "off"]
    /\ metrics_loop = [w \in Sockets |-> [pc |-> "off", results |-> <<>>, raised |-> "none"]]
    /\ broadcasts = [w \in Sockets |-> [l \in Loops |-> NoBroadcast]]

Init ==
    /\ WorkerStart
    /\ batch_size = BatchSize
    /\ QueriesOff
    /\ AlertOff
    /\ GatewayStart

\* ------------------------------------------------------------- producer
\* DataIngester.publish_post: XADD of one entry
publish_post(m) ==
    /\ Len(stream) < MaxEntries
    /\ stream' = Append(stream, m)
    /\ UNCHANGED <<last_delivered, acked, calls, posts, analyses, now, pubsub,
                   messages_processed, messages_failed, run_pc, backoff, slept, polls>>
    /\ UNCHANGED outside

\* ------------------------------------------------------------- run()
BackoffStart == 1
BackoffCap   == 30

\* xreadgroup(streams={stream: ">"}, count=batch_size) answers with new entries:
\* every entry of the answer gets its process_message task, gathered together
xreadgroup_entries ==
    /\ run_pc = "read"
    /\ last_delivered < Len(stream)
    /\ LET upto == Min(Len(stream), last_delivered + batch_size) IN
       /\ calls' = [e \in Entries |->
                       IF e > last_delivered /\ e <= upto
                       THEN [NoCall EXCEPT !.pc = "decode"] ELSE calls[e]]
       /\ last_delivered' = upto
    /\ run_pc' = "gather"
    /\ polls' = 0
    /\ UNCHANGED <<stream, acked, posts, analyses, now, pubsub,
                   messages_processed, messages_failed, backoff, slept>>
    /\ UNCHANGED outside

\* xreadgroup blocks block_ms and answers nothing: "continue"
xreadgroup_empty ==
    /\ run_pc = "read"
    /\ last_delivered = Len(stream)
    /\ polls' = 1 - polls
    /\ UNCHANGED <<stream, last_delivered, acked, calls, posts, analyses, now, pubsub,
                   messages_processed, messages_failed, run_pc, backoff, slept>>
    /\ UNCHANGED outside

\* the handler of redis.ConnectionError with a cap of 60
connection_error_cap_60 ==
    /\ run_pc = "read"
    /\ slept' = backoff
    /\ backoff' = Min(backoff * 2, 60)
    /\ UNCHANGED <<stream, last_delivered, acked, calls, posts, analyses, now, pubsub,
                   messages_processed, messages_failed, run_pc, polls>>
    /\ UNCHANGED outside

\* xreadgroup raises redis.ConnectionError: sleep(backoff), then double up to the cap
xreadgroup_connection_error ==
    /\ run_pc = "read"
    /\ slept' = backoff
    /\ backoff' = Min(backoff * 2, BackoffCap)
    /\ UNCHANGED <<stream, last_delivered, acked, calls, posts, analyses, now, pubsub,
                   messages_processed, messages_failed, run_pc, polls>>
    /\ UNCHANGED outside

\* run() going back to xreadgroup without awaiting the tasks of the batch
gather_no_wait ==
    /\ run_pc = "gather"
    /\ run_pc' = "read"
    /\ backoff' = BackoffStart
    /\ slept' = 0
    /\ UNCHANGED <<stream, last_delivered, acked, calls, posts, analyses, now, pubsub,
                   messages_processed, messages_failed, polls>>
    /\ UNCHANGED outside

\* asyncio.gather returned: every task of the batch is done; backoff reset
gather_done ==
    /\ run_pc = "gather"
    /\ \A e \in Entries : ~InFlight(e)
    /\ run_pc' = "read"
    /\ backoff' = BackoffStart
    /\ slept' = 0
    /\ UNCHANGED <<stream, last_delivered, acked, calls, posts, analyses, now, pubsub,
                   messages_processed, messages_failed, polls>>
    /\ UNCHANGED outside

\* ------------------------------------------------------------- process_message
Text(e) == stream[e].content

\* "if not required_keys.issubset(decoded.keys())"
missing_required(m) == ~(required_keys \subseteq DOMAIN m)

\* the outer handler without its xack
unexpected_error_nack(e, exc) ==
    /\ messages_failed' = messages_failed + 1
    /\ calls' = [calls EXCEPT ![e] = Return([@ EXCEPT !.exc = exc],
                                            "unexpected_error", "False")]
    /\ UNCHANGED <<acked, messages_processed>>

\* lines 130-138: the outer handler -> xack, whose own exception is passed over,
\* messages_failed += 1, return False
unexpected_error(e, exc) ==
    /\ \E xack_raises \in BOOLEAN :
          /\ acked' = IF xack_raises THEN acked ELSE acked \cup {e}
          /\ calls' = [calls EXCEPT ![e] =
                          Return([@ EXCEPT !.exc = exc,
                                           !.xack = IF xack_raises THEN "raised" ELSE "answered"],
                                 "unexpected_error", "False")]
    /\ messages_failed' = messages_failed + 1
    /\ UNCHANGED messages_processed

\* the invalid payload acknowledged and not counted
invalid_payload_uncounted(e) ==
    \E xack_raises \in BOOLEAN :
        IF xack_raises
        THEN unexpected_error(e, "xack")
        ELSE /\ acked' = acked \cup {e}
             /\ calls' = [calls EXCEPT ![e] = Return([@ EXCEPT !.xack = "answered"],
                                                     "invalid_payload", "False")]
             /\ UNCHANGED <<messages_processed, messages_failed>>

\* lines 60-64: invalid payload -> xack, messages_failed += 1, return False; an xack
\* that raises is caught by the outer handler before anything was counted
invalid_payload(e) ==
    \E xack_raises \in BOOLEAN :
        IF xack_raises
        THEN unexpected_error(e, "xack")
        ELSE /\ acked' = acked \cup {e}
             /\ messages_failed' = messages_failed + 1
             /\ calls' = [calls EXCEPT ![e] = Return([@ EXCEPT !.xack = "answered"],
                                                     "invalid_payload", "False")]
             /\ UNCHANGED messages_processed

\* the inner handler acknowledging like the outer one
inner_handler_acks(e, raised_by) ==
    /\ acked' = acked \cup {e}
    /\ messages_failed' = messages_failed + 1
    /\ calls' = [calls EXCEPT ![e].classifier_calls = @ + 1,
                              ![e].db_exc = raised_by,
                              ![e].pc = "exit"]
    /\ UNCHANGED messages_processed

\* lines 95-99: the inner handler -> no xack, messages_failed += 1, return False;
\* the return leaves "async with self.db_session_maker()", whose exit is awaited
inner_handler(e, raised_by) ==
    /\ messages_failed' = messages_failed + 1
    /\ calls' = [calls EXCEPT ![e].classifier_calls = @ + 1,
                              ![e].db_exc = raised_by,
                              ![e].pc = "exit"]
    /\ UNCHANGED <<acked, messages_processed>>

\* lines 57-75: decode, check the keys, parse created_at
decode(e) ==
    /\ calls[e].pc = "decode"
    /\ IF missing_required(stream[e])
       THEN invalid_payload(e)
       ELSE IF fromisoformat(replace_Z(stream[e].created_at)) = <<>>
            THEN unexpected_error(e, "ValueError")
            ELSE /\ calls' = [calls EXCEPT ![e].pc = "sentiment"]
                 /\ UNCHANGED <<acked, messages_failed, messages_processed>>
    /\ UNCHANGED <<stream, last_delivered, posts, analyses, now, pubsub,
                   run_pc, backoff, slept, polls>>
    /\ UNCHANGED outside

\* lines 80-82: local_analyzer.analyze_sentiment answers or raises
local_sentiment(e) ==
    /\ calls[e].pc = "sentiment"
    /\ \E raises \in BOOLEAN :
        /\ text_rejected(Text(e)) => raises
        /\ calls' = [calls EXCEPT
                        ![e].classifier_calls = @ + 1,
                        ![e].pc = IF raises THEN "fallback" ELSE "emotion",
                        ![e].sentiment = IF raises THEN <<>>
                                         ELSE <<analyze_sentiment_local(Text(e))>>]
    /\ UNCHANGED <<stream, last_delivered, acked, posts, analyses, now, pubsub,
                   messages_processed, messages_failed, run_pc, backoff, slept, polls>>
    /\ UNCHANGED outside

\* line 83: external_analyzer.analyze_sentiment answers, or raises into line 95
external_sentiment(e) ==
    /\ calls[e].pc = "fallback"
    /\ \E raises \in BOOLEAN :
        /\ text_rejected(Text(e)) => raises
        /\ (~api_key /\ ~text_rejected(Text(e))) => ~raises
        /\ IF raises
           THEN inner_handler(e, "sentiment_raised")
           ELSE /\ calls' = [calls EXCEPT
                                ![e].classifier_calls = @ + 1,
                                ![e].pc = "emotion",
                                ![e].sentiment =
                                    <<analyze_sentiment_external(Text(e), api_key)>>]
                /\ UNCHANGED <<acked, messages_failed, messages_processed>>
    /\ UNCHANGED <<stream, last_delivered, posts, analyses, now, pubsub,
                   run_pc, backoff, slept, polls>>
    /\ UNCHANGED outside

\* line 86: local_analyzer.analyze_emotion answers, or raises into line 95
emotion_detection(e) ==
    /\ calls[e].pc = "emotion"
    /\ \E raises \in BOOLEAN :
        /\ text_rejected(Text(e)) => raises
        /\ (~emotion_needs_pipeline(Text(e)) /\ ~text_rejected(Text(e))) => ~raises
        /\ IF raises
           THEN inner_handler(e, "emotion_raised")
           ELSE /\ calls' = [calls EXCEPT
                                ![e].classifier_calls = @ + 1,
                                ![e].pc = "insert_post",
                                ![e].emotion = <<analyze_emotion_local(Text(e))>>]
                /\ UNCHANGED <<acked, messages_failed, messages_processed>>
    /\ UNCHANGED <<stream, last_delivered, posts, analyses, now, pubsub,
                   run_pc, backoff, slept, polls>>
    /\ UNCHANGED outside

\* ------------------------------------------------------------- save_post_and_analysis
\* the row of insert(SocialMediaPost).values(...), ingested_at by its default
post_row(e) ==
    [post_id     |-> stream[e].post_id,
     source      |-> stream[e].source,
     content     |-> stream[e].content,
     author      |-> stream[e].author,
     created_at  |-> fromisoformat(replace_Z(stream[e].created_at))[1],
     ingested_at |-> now]

\* the row of insert(SentimentAnalysis).values(...), analyzed_at by its default
analysis_row(e) ==
    [post_id          |-> stream[e].post_id,
     model_name       |-> calls[e].sentiment[1].model_name,
     sentiment_label  |-> calls[e].sentiment[1].sentiment_label,
     confidence_score |-> calls[e].sentiment[1].confidence_score,
     emotion          |-> calls[e].emotion[1].emotion,
     analyzed_at      |-> now]

\* post_id without its unique constraint
unique_violation_off(post_id) == FALSE

\* unique=True on social_media_posts.post_id, against the committed rows
unique_violation(post_id) == \E i \in 1..Len(posts) : posts[i].post_id = post_id

\* another open transaction holds an uncommitted row with this post_id:
\* the INSERT waits for that transaction to end
insert_waits(e) ==
    \E o \in Entries :
        /\ o # e
        /\ Len(calls[o].session) > 0
        /\ calls[o].session[1].post_id = stream[e].post_id

\* an exception that leaves the post inserted so far in the table
rollback_keeps_post(e, exc) ==
    /\ calls' = [calls EXCEPT ![e].session = <<>>, ![e].saved = exc, ![e].pc = "exit"]
    /\ posts' = IF Len(calls[e].session) > 0 THEN Append(posts, calls[e].session[1])
                ELSE posts
    /\ UNCHANGED analyses

\* "async with db_session.begin()" left by an exception: ROLLBACK; lines 78-79
\* print the exception and return normally
rollback(e, exc) ==
    /\ calls' = [calls EXCEPT ![e].session = <<>>, ![e].saved = exc, ![e].pc = "exit"]
    /\ UNCHANGED <<posts, analyses>>

\* lines 47-58: begin, INSERT the post
insert_post(e) ==
    /\ calls[e].pc = "insert_post"
    /\ ~insert_waits(e)
    /\ \E db_error \in BOOLEAN :
        IF db_error
        THEN rollback(e, "OperationalError")
        ELSE IF unique_violation(stream[e].post_id)
             THEN rollback(e, "IntegrityError")
             ELSE /\ calls' = [calls EXCEPT ![e].session = <<post_row(e)>>,
                                            ![e].pc = "insert_analysis"]
                  /\ UNCHANGED <<posts, analyses>>
    /\ now' = now + 1
    /\ UNCHANGED <<stream, last_delivered, acked, pubsub,
                   messages_processed, messages_failed, run_pc, backoff, slept, polls>>
    /\ UNCHANGED outside

\* lines 60-74: INSERT the analysis
insert_analysis(e) ==
    /\ calls[e].pc = "insert_analysis"
    /\ \E db_error \in BOOLEAN :
        IF db_error
        THEN rollback(e, "OperationalError")
        ELSE /\ calls' = [calls EXCEPT ![e].session = Append(@, analysis_row(e)),
                                       ![e].pc = "commit"]
             /\ UNCHANGED <<posts, analyses>>
    /\ UNCHANGED <<stream, last_delivered, acked, now, pubsub,
                   messages_processed, messages_failed, run_pc, backoff, slept, polls>>
    /\ UNCHANGED outside

\* leaving "async with db_session.begin()": COMMIT both rows, or fail and roll back
commit(e) ==
    /\ calls[e].pc = "commit"
    /\ \E db_error \in BOOLEAN :
        IF db_error
        THEN rollback(e, "OperationalError")
        ELSE /\ posts' = Append(posts, calls[e].session[1])
             /\ analyses' = Append(analyses, calls[e].session[2])
             /\ calls' = [calls EXCEPT ![e].session = <<>>, ![e].saved = "committed",
                                       ![e].pc = "exit"]
    /\ UNCHANGED <<stream, last_delivered, acked, now, pubsub,
                   messages_processed, messages_failed, run_pc, backoff, slept, polls>>
    /\ UNCHANGED outside

\* ------------------------------------------------------------- session exit
\* line 77, leaving "async with self.db_session_maker() as db_session": the session
\* is closed. After the inner handler no statement has run on the session (the save
\* is the last statement of the inner try and raises nothing), closing it touches no
\* connection and the "return False" of line 99 takes effect. After the save the
\* session holds the connection of the transaction: a close that raises is caught
\* by the outer handler, else the call goes on to publish.
session_exit(e) ==
    /\ calls[e].pc = "exit"
    /\ IF calls[e].db_exc /= "none"
       THEN /\ calls' = [calls EXCEPT ![e] = Return(@, @.db_exc, "False")]
            /\ UNCHANGED <<acked, messages_failed, messages_processed>>
       ELSE \E raises \in BOOLEAN :
               IF raises
               THEN unexpected_error(e, "session_exit")
               ELSE /\ calls' = [calls EXCEPT ![e].pc = "publish"]
                    /\ UNCHANGED <<acked, messages_failed, messages_processed>>
    /\ UNCHANGED <<stream, last_delivered, posts, analyses, now, pubsub,
                   run_pc, backoff, slept, polls>>
    /\ UNCHANGED outside

\* ------------------------------------------------------------- announce, acknowledge
\* the payload of lines 106-119
post_event(e) ==
    [type |-> "post",
     data |-> [post_id          |-> stream[e].post_id,
               content          |-> Prefix(stream[e].content, PreviewLen),
               source           |-> stream[e].source,
               sentiment_label  |-> calls[e].sentiment[1].sentiment_label,
               confidence_score |-> calls[e].sentiment[1].confidence_score,
               emotion          |-> calls[e].emotion[1].emotion,
               timestamp        |-> now]]

\* publish whose failure ends the call like a failed save
publish_failure_aborts(e) ==
    /\ calls[e].pc = "publish"
    /\ \E raises \in BOOLEAN :
        IF raises
        THEN /\ calls' = [calls EXCEPT ![e] = Return([@ EXCEPT !.publish = "failed"],
                                                     "publish_raised", "False")]
             /\ messages_failed' = messages_failed + 1
             /\ UNCHANGED pubsub
        ELSE /\ pubsub' = Append(pubsub, post_event(e))
             /\ calls' = [calls EXCEPT ![e].publish = "sent", ![e].pc = "xack"]
             /\ UNCHANGED messages_failed
    /\ UNCHANGED <<stream, last_delivered, acked, posts, analyses, now,
                   messages_processed, run_pc, backoff, slept, polls>>
    /\ UNCHANGED outside

\* lines 101-123: redis.publish, its failure passed over
publish(e) ==
    /\ calls[e].pc = "publish"
    /\ \E raises \in BOOLEAN :
        /\ pubsub' = IF raises THEN pubsub ELSE Append(pubsub, post_event(e))
        /\ calls' = [calls EXCEPT ![e].publish = IF raises THEN "failed" ELSE "sent",
                                  ![e].pc = "xack"]
    /\ UNCHANGED <<stream, last_delivered, acked, posts, analyses, now,
                   messages_processed, messages_failed, run_pc, backoff, slept, polls>>
    /\ UNCHANGED outside

\* lines 125-128: xack, messages_processed += 1, return True; an xack that raises
\* is caught by the outer handler before anything was counted
acknowledge(e) ==
    /\ calls[e].pc = "xack"
    /\ \E xack_raises \in BOOLEAN :
        IF xack_raises
        THEN unexpected_error(e, "xack")
        ELSE /\ acked' = acked \cup {e}
             /\ messages_processed' = messages_processed + 1
             /\ calls' = [calls EXCEPT ![e] = Return([@ EXCEPT !.xack = "answered"],
                                                     "processed", "True")]
             /\ UNCHANGED messages_failed
    /\ UNCHANGED <<stream, last_delivered, posts, analyses, now, pubsub,
                   run_pc, backoff, slept, polls>>
    /\ UNCHANGED outside

\* ------------------------------------------------------------- specification
process_message(e) ==
    \/ decode(e)
    \/ local_sentiment(e)
    \/ external_sentiment(e)
    \/ emotion_detection(e)
    \/ insert_post(e)
    \/ insert_analysis(e)
    \/ commit(e)
    \/ session_exit(e)
    \/ publish(e)
    \/ acknowledge(e)

Next ==
    \/ \E m \in Messages : publish_post(m)
    \/ xreadgroup_entries
    \/ xreadgroup_empty
    \/ gather_done
    \/ \E e \in Entries : process_message(e)

Spec == Init /\ [][Next]_vars

\* run(batch_size=1) on a log connection that may fail, fed with a short post: the
\* entries are processed one after the other, between connection errors
RunMessages == {M2}

RunInit ==
    /\ WorkerStart
    /\ batch_size = 1
    /\ QueriesOff
    /\ AlertOff
    /\ GatewayStart

RunNext ==
    \/ \E m \in RunMessages : publish_post(m)
    \/ xreadgroup_entries
    \/ xreadgroup_empty
    \/ xreadgroup_connection_error
    \/ gather_done
    \/ \E e \in Entries : process_message(e)

RunSpec == RunInit /\ [][RunNext]_vars

\* The worker fed with one well-formed post, appended again and again: what it
\* writes to the Store, publishes and acknowledges for the post and its duplicates
StoreMessages == {M1}

StoreNext ==
    \/ \E m \in StoreMessages : publish_post(m)
    \/ xreadgroup_entries
    \/ xreadgroup_empty
    \/ gather_done
    \/ \E e \in Entries : process_message(e)

StoreSpec == Init /\ [][StoreNext]_vars

\* run(batch_size) for every batch size up to BatchSize, fed with that post
BatchInit ==
    /\ WorkerStart
    /\ batch_size \in 1..BatchSize
    /\ QueriesOff
    /\ AlertOff
    /\ GatewayStart

BatchSpec == BatchInit /\ [][StoreNext]_vars

\* The worker fed with a well-formed post, an entry without author and an entry
\* whose created_at is no instant
PoisonMessages == {M1, M3, M4}

PoisonNext ==
    \/ \E m \in PoisonMessages : publish_post(m)
    \/ xreadgroup_entries
    \/ xreadgroup_empty
    \/ gather_done
    \/ \E e \in Entries : process_message(e)

PoisonSpec == Init /\ [][PoisonNext]_vars

\* The event loop runs every ready task, and run() polls the stream for ever.
FairSpec ==
    /\ Spec
    /\ WF_vars(xreadgroup_entries)
    /\ WF_vars(xreadgroup_empty)
    /\ WF_vars(gather_done)
    /\ \A e \in Entries : WF_vars(process_message(e))

\* ------------------------------------------------------------- alert monitor
\* AlertService (alerting.py). A ratio is a fraction in lowest terms; den = 0 is
\* float("inf"). The timestamp of the alert is the clock.
negative_ratio_threshold == 2
window_minutes           == 5
min_posts                == 10

\* the rows the window query can answer: the analyses of the window counted by label.
\* (Over no analysis at all SUM is NULL, not 0; total = 0 is below min_posts, so the
\* sums are not read then.)
AlertRows ==
    {[positive |-> p, negative |-> n, neutral |-> u, total |-> p + n + u] :
        p \in 0..MaxCount, n \in 0..MaxCount, u \in 0..MaxCount}

RECURSIVE gcd(_, _)
gcd(a, b) == IF b = 0 THEN a ELSE gcd(b, a % b)

Fraction(n, d) == [num |-> n \div gcd(n, d), den |-> d \div gcd(n, d)]

Inf == [num |-> 1, den |-> 0]

\* lines 91-99
ratio_of(row) ==
    IF row.positive = 0
    THEN IF row.negative > 0 THEN Inf ELSE Fraction(0, 1)
    ELSE Fraction(row.negative, Max(row.positive, 1))

\* "ratio <= self.negative_ratio_threshold"
ratio_le(r, t) == r.den /= 0 /\ r.num <= t * r.den

\* lines 104-117
alert_data(row) ==
    [alert_triggered |-> TRUE,
     alert_type      |-> "high_negative_ratio",
     threshold       |-> negative_ratio_threshold,
     actual_ratio    |-> ratio_of(row),
     window_minutes  |-> window_minutes,
     metrics         |-> [positive_count |-> row.positive,
                          negative_count |-> row.negative,
                          neutral_count  |-> row.neutral,
                          total_count    |-> row.total],
     timestamp       |-> now]

\* func.case((label == ..., 1), else_=0), lines 55-58, 61-64 and 67-70 (and the same
\* call in aggregrator.py and routes.py): "func" makes a function of any name, and
\* "case" is no function it knows, so the call is Function("case", (...), else_=0).
\* Function.__init__(self, name, *clauses, type_=None, packagenames=None) takes the
\* keywords of Function_keywords; any other keyword is a TypeError, raised while the
\* statement is built and before anything is sent to the database.
Function_keywords == {"type_", "packagenames"}

func_case_keywords == {"else_"}

func_case_raises == ~(func_case_keywords \subseteq Function_keywords)

\* lines 82-119: check_thresholds on the row of its window query: <<>> is None
check_thresholds(row) ==
    IF row.total < min_posts THEN <<>>
    ELSE IF ratio_le(ratio_of(row), negative_ratio_threshold) THEN <<>>
    ELSE <<alert_data(row)>>

\* the columns of the model SentimentAlert, and the keywords save_alert constructs it with
SentimentAlert_columns ==
    {"id", "alert_type", "threshold_value", "actual_value", "window_start", "window_end",
     "post_count", "triggered_at", "details"}

save_alert_keywords ==
    {"alert_type", "threshold_value", "actual_value", "window_minutes", "positive_count",
     "negative_count", "neutral_count", "total_count", "created_at", "raw_payload"}

\* the names bound at module level in alerting.py
alerting_globals ==
    {"os", "datetime", "timedelta", "Optional", "Dict", "Any", "AsyncSession", "select",
     "func", "SocialMediaPost", "SentimentAnalysis", "SentimentAlert", "AlertService"}

\* "alert = await self.check_thresholds()": the statement of lines 52-79 is built
\* first, and its TypeError leaves check_thresholds before the query is executed and
\* before "alert" is assigned; the loop's "except Exception" catches it
monitor_check ==
    /\ alert_pc = "check"
    /\ IF func_case_raises
       THEN /\ alert_pc' = "except"
            /\ UNCHANGED alert
       ELSE /\ alert' = check_thresholds(alert_row)
            /\ alert_pc' = IF alert' /= <<>> /\ alert'[1].alert_triggered THEN "save" ELSE "sleep"
    /\ UNCHANGED <<alert_row, alerts>>
    /\ UNCHANGED <<worker_vars, classifier, processor, gateway_vars, query_vars>>

\* "await self.save_alert(alert)": the constructor of a mapped class raises TypeError
\* for a keyword that is no attribute of it; the loop's "except Exception" catches it.
\* The publish of line 145 evaluates json.dumps first, and "json" is no name of the
\* module: NameError inside the try of lines 144-148, so nothing is ever published
\* on the alert channel and save_alert has no other effect than its row.
monitor_save ==
    /\ alert_pc = "save"
    /\ IF save_alert_keywords \subseteq SentimentAlert_columns
       THEN /\ alerts' = Append(alerts, [id              |-> Len(alerts) + 1,
                                         alert_type      |-> alert[1].alert_type,
                                         threshold_value |-> alert[1].threshold,
                                         actual_value    |-> alert[1].actual_ratio])
            /\ alert_pc' = "sleep"
       ELSE /\ alerts' = alerts
            /\ alert_pc' = "except"
    /\ UNCHANGED <<alert_row, alert>>
    /\ UNCHANGED <<worker_vars, classifier, processor, gateway_vars, query_vars>>

\* lines 161-163: "except Exception: pass"
monitor_except ==
    /\ alert_pc = "except"
    /\ alert_pc' = "sleep"
    /\ UNCHANGED <<alert_row, alert, alerts>>
    /\ UNCHANGED <<worker_vars, classifier, processor, gateway_vars, query_vars>>

\* lines 157-163, the try of one round: where it is decides what it does next
monitor_try ==
    CASE alert_pc = "check"  -> monitor_check
      [] alert_pc = "save"   -> monitor_save
      [] alert_pc = "except" -> monitor_except
      [] OTHER               -> FALSE

\* "await asyncio.sleep(check_interval_seconds)", outside the try: a name that is not
\* bound raises NameError and the loop is over; else the next round sees a new window
monitor_sleep ==
    /\ alert_pc = "sleep"
    /\ IF "asyncio" \in alerting_globals
       THEN /\ alert_pc' = "check"
            /\ alert_row' \in AlertRows
       ELSE /\ alert_pc' = "raised"
            /\ UNCHANGED alert_row
    /\ UNCHANGED <<alert, alerts>>
    /\ UNCHANGED <<worker_vars, classifier, processor, gateway_vars, query_vars>>

run_monitoring_loop ==
    \/ monitor_try
    \/ monitor_sleep

AlertInit ==
    /\ WorkerStart
    /\ batch_size = BatchSize
    /\ QueriesOff
    /\ alert_row \in AlertRows
    /\ alert_pc = "check"
    /\ alert = <<>>
    /\ alerts = <<>>
    /\ GatewayStart

AlertNext == run_monitoring_loop

AlertSpec == AlertInit /\ [][AlertNext]_vars

\* ------------------------------------------------------------- push gateway
\* routes.py: ConnectionManager and websocket_endpoint. The clock counts minutes.
\* A send to a socket succeeds while the socket is open and raises once the client
\* has closed it or the server has closed it after the handler ended.
Hour == 60

\* the k-th post event of the channel, as worker.py:106-119 publishes it; json.dumps
\* and json.loads give back the same dict of strings and integers
SamplePostIds == <<"p1", "p2", "p3", "p4">>

SampleEvent(k) ==
    [type |-> "post",
     data |-> [post_id          |-> SamplePostIds[k],
               content          |-> LoveText,
               source           |-> "twitter",
               sentiment_label  |-> "positive",
               confidence_score |-> 99,
               emotion          |-> "joy",
               timestamp        |-> k]]

\* the Store the gateway reads: analyses 0 minutes, 30 minutes, 30 hours and 100 hours
\* old at the clock value SampleNow
SampleNow == 100 * Hour + 1

SamplePost(id) ==
    [post_id |-> id, source |-> "twitter", content |-> LoveText, author |-> "u1",
     created_at |-> 0, ingested_at |-> 0]

SampleAnalysis(id, label, at) ==
    [post_id |-> id, model_name |-> LocalModelName, sentiment_label |-> label,
     confidence_score |-> 99, emotion |-> "joy", analyzed_at |-> at]

SamplePosts == <<SamplePost("q1"), SamplePost("q2"), SamplePost("q3"), SamplePost("q4")>>

SampleAnalyses ==
    <<SampleAnalysis("q1", "negative", SampleNow - 100 * Hour),
      SampleAnalysis("q2", "neutral",  SampleNow - 30 * Hour),
      SampleAnalysis("q3", "negative", SampleNow - 30),
      SampleAnalysis("q4", "positive", SampleNow)>>

\* SQL NULL / Python None where a count is expected: a value that is no count
None == -1

\* the analyses joined with their posts, at or after "since", of one source if given
WindowRows(since, source) ==
    {ij \in (1..Len(analyses)) \X (1..Len(posts)) :
        /\ posts[ij[2]].post_id = analyses[ij[1]].post_id
        /\ analyses[ij[1]].analyzed_at >= since
        /\ source /= <<>> => posts[ij[2]].source = source[1]}

\* SUM(CASE WHEN sentiment_label = label THEN 1 ELSE 0 END): NULL over no row
sum_case(rows, label) ==
    IF rows = {} THEN None
    ELSE Cardinality({ij \in rows : analyses[ij[1]].sentiment_label = label})

\* "positive / total * 100.0"
percentage(count, total) == IF total > 0 THEN Fraction(count * 100, total) ELSE Fraction(0, 1)

\* datetime.isoformat(), and the routes' ".replace(microsecond=0).isoformat() + 'Z'"
\* (the clock has no microseconds)
isoformat(t) == <<"iso", t>>

isoformat_Z(t) == <<"iso", t, "Z">>

\* SentimentAggregator.get_distribution, lines 155-156 and 167-217: the result computed
\* from the Store by a call that read the clock at "at"
distribution_result(at, hours, source) ==
    LET rows     == WindowRows(at - hours * Hour, source)
        positive == sum_case(rows, "positive")
        negative == sum_case(rows, "negative")
        neutral  == sum_case(rows, "neutral")
        total    == Cardinality(rows)
    IN  [timeframe_hours |-> hours,
         source          |-> source,
         distribution    |-> [positive     |-> positive,
                              negative     |-> negative,
                              neutral      |-> neutral,
                              total        |-> total,
                              percentages  |-> [positive |-> percentage(positive, total),
                                                negative |-> percentage(negative, total),
                                                neutral  |-> percentage(neutral, total)],
                              top_emotions |-> <<>>],
         cached          |-> FALSE,
         cached_at       |-> isoformat(at)]

\* SentimentAggregator.get_distribution(db, hours, source, use_cache=False)
get_distribution(hours, source) == distribution_result(now, hours, source)

\* the frames
connected_frame ==
    [type |-> "connected", message |-> "Connected to sentiment stream", timestamp |-> now]

ContentLen == 100

new_post_frame(payload) ==
    [type |-> "new_post",
     data |-> [post_id          |-> payload.data.post_id,
               content          |-> Prefix(payload.data.content, ContentLen),
               source           |-> payload.data.source,
               sentiment_label  |-> payload.data.sentiment_label,
               confidence_score |-> payload.data.confidence_score,
               emotion          |-> payload.data.emotion,
               timestamp        |-> payload.data.timestamp]]

\* one window of the metrics frame: m["total"] is read from the top of the result
window_summary(m) ==
    [positive |-> m.distribution.positive,
     negative |-> m.distribution.negative,
     neutral  |-> m.distribution.neutral,
     total    |-> m.total]

metrics_update_frame(metrics_1, metrics_60, metrics_24) ==
    [type |-> "metrics_update",
     data |-> [last_minute   |-> window_summary(metrics_1),
               last_hour     |-> window_summary(metrics_60),
               last_24_hours |-> window_summary(metrics_24)],
     timestamp |-> now]

\* list.remove of ConnectionManager.disconnect: "if websocket in ...: remove"
disconnect(connections, w) == SelectSeq(connections, LAMBDA c : c /= w)

gateway_frame == <<stream, last_delivered, acked, calls, posts, analyses, now,
                   messages_processed, messages_failed, run_pc, backoff, slept, polls,
                   batch_size, classifier, processor, alert_vars, query_vars>>

\* manager.connect alone: the socket is accepted and appended, and the handler is
\* suspended before it has called send_json
connect_registers_only(w) ==
    /\ handler[w].pc = "idle"
    /\ \A v \in Sockets : v < w => handler[v].pc /= "idle"
    /\ websockets' = [websockets EXCEPT ![w].state = "open"]
    /\ active_connections' = Append(active_connections, w)
    /\ handler' = [handler EXCEPT ![w].pc = "hello"]
    /\ UNCHANGED <<subscribed, inbox, updates_loop, metrics_loop, broadcasts, pubsub>>
    /\ UNCHANGED gateway_frame

\* a client connects, lines 388-390 and 415-431: accept() returns, the socket is
\* appended and, with no await in between, send_json is called with the hello frame.
\* A socket sends its frames in the order send_json was called on it, so the hello
\* frame is handed to the socket here, and the handler waits for send_json to return.
connect(w) ==
    /\ handler[w].pc = "idle"
    /\ \A v \in Sockets : v < w => handler[v].pc /= "idle"
    /\ websockets' = [websockets EXCEPT ![w] = [state    |-> "open",
                                                received |-> Append(@.received, connected_frame)]]
    /\ active_connections' = Append(active_connections, w)
    /\ handler' = [handler EXCEPT ![w].pc = "hello"]
    /\ UNCHANGED <<subscribed, inbox, updates_loop, metrics_loop, broadcasts, pubsub>>
    /\ UNCHANGED gateway_frame

\* the client goes away; nothing on the server awaits a receive of this socket
client_closes(w) ==
    /\ websockets[w].state = "open"
    /\ websockets' = [websockets EXCEPT ![w].state = "closed"]
    /\ UNCHANGED <<active_connections, handler, subscribed, inbox, updates_loop,
                   metrics_loop, broadcasts, pubsub>>
    /\ UNCHANGED gateway_frame

\* the try of websocket_endpoint is left by exception exc, lines 507-510: "except
\* WebSocketDisconnect" takes the socket off the list, any other exception passes it
\* by; then "finally" awaits redis_client.close(), and while the handler is suspended
\* there its socket is as it was and its subscription is alive
handler_raises(w, exc) ==
    /\ handler' = [handler EXCEPT ![w] = [pc |-> "finally", raised |-> exc]]
    /\ active_connections' = IF exc = "WebSocketDisconnect"
                             THEN disconnect(active_connections, w)
                             ELSE active_connections

\* lines 425-431: send_json of the hello frame returns; on a socket closed in the
\* meantime it raises the WebSocketDisconnect the handler catches
send_hello(w) ==
    /\ handler[w].pc = "hello"
    /\ IF websockets[w].state = "open"
       THEN /\ handler' = [handler EXCEPT ![w].pc = "subscribe"]
            /\ UNCHANGED active_connections
       ELSE handler_raises(w, "WebSocketDisconnect")
    /\ UNCHANGED <<websockets, subscribed, inbox, updates_loop, metrics_loop, broadcasts, pubsub>>
    /\ UNCHANGED gateway_frame

\* line 505: the exception of a loop leaves gather() and reaches the handler; gather()
\* does not cancel the loop that did not raise
gather_raises(w) ==
    /\ handler[w].pc = "gather"
    /\ metrics_loop[w].pc = "raised"
    /\ handler_raises(w, metrics_loop[w].raised)
    /\ UNCHANGED <<websockets, subscribed, inbox, updates_loop, metrics_loop, broadcasts, pubsub>>
    /\ UNCHANGED gateway_frame

\* line 510: redis_client.close() returns: the connections of its pool are closed,
\* the one of the subscription among them, and what that one had not yet yielded is
\* gone. The handler is over (an exception other than WebSocketDisconnect leaves
\* it), and the server closes the socket of a handler that is over.
handler_ends(w) ==
    /\ handler[w].pc = "finally"
    /\ handler' = [handler EXCEPT ![w].pc = "ended"]
    /\ websockets' = [websockets EXCEPT ![w].state = "closed"]
    /\ subscribed' = subscribed \ {w}
    /\ inbox' = [inbox EXCEPT ![w] = <<>>]
    /\ UNCHANGED <<active_connections, updates_loop, metrics_loop, broadcasts, pubsub>>
    /\ UNCHANGED gateway_frame

\* lines 433-434 and 505: subscribe, then gather(metrics_loop(), updates_loop()), which
\* makes a task of each loop: the task of metrics_loop is the first to run, the task
\* of updates_loop follows it and waits in listen()
subscribe(w) ==
    /\ handler[w].pc = "subscribe"
    /\ subscribed' = subscribed \cup {w}
    /\ handler' = [handler EXCEPT ![w].pc = "gather"]
    /\ updates_loop' = [updates_loop EXCEPT ![w] = "listen"]
    /\ metrics_loop' = [metrics_loop EXCEPT ![w].pc = "created"]
    /\ UNCHANGED <<active_connections, websockets, inbox, broadcasts, pubsub>>
    /\ UNCHANGED gateway_frame

\* the worker publishes a post event: Redis hands it to every subscription
event_published ==
    /\ Len(pubsub) < MaxEvents
    /\ LET event == SampleEvent(Len(pubsub) + 1) IN
       /\ pubsub' = Append(pubsub, event)
       /\ inbox' = [w \in Sockets |->
                       IF w \in subscribed THEN Append(inbox[w], event) ELSE inbox[w]]
    /\ UNCHANGED <<active_connections, websockets, handler, subscribed, updates_loop,
                   metrics_loop, broadcasts>>
    /\ UNCHANGED gateway_frame

\* manager.broadcast(message) is called by loop l of handler w: the snapshot
\* "list(self.active_connections)"; over an empty list it returns at once
broadcast_called(w, l, message) ==
    IF active_connections = <<>>
    THEN UNCHANGED broadcasts
    ELSE broadcasts' = [broadcasts EXCEPT ![w][l] =
                           [message |-> <<message>>, snapshot |-> active_connections, i |-> 1]]

\* updates_loop: listen() yields a message of the channel; lines 478-501. The loop
\* is in listen() once the task of metrics_loop, started before it, has run.
updates_receive(w) ==
    /\ updates_loop[w] = "listen"
    /\ metrics_loop[w].pc /= "created"
    /\ inbox[w] /= <<>>
    /\ LET payload == Head(inbox[w])
           message == IF payload.type = "post" THEN new_post_frame(payload) ELSE payload
       IN  /\ inbox' = [inbox EXCEPT ![w] = Tail(@)]
           /\ broadcast_called(w, "updates", message)
           /\ updates_loop' = [updates_loop EXCEPT ![w] =
                                  IF active_connections = <<>> THEN "listen" ELSE "broadcast"]
    /\ UNCHANGED <<active_connections, websockets, handler, subscribed, metrics_loop, pubsub>>
    /\ UNCHANGED gateway_frame

\* broadcast whose failed send ends the loop over the snapshot
broadcast_send_stops_at_failure(w, l) ==
    /\ broadcasts[w][l].i > 0
    /\ LET b == broadcasts[w][l]
           c == b.snapshot[b.i]
           sent == websockets[c].state = "open"
       IN  /\ IF sent
              THEN /\ websockets' = [websockets EXCEPT ![c].received = Append(@, b.message[1])]
                   /\ UNCHANGED active_connections
              ELSE /\ active_connections' = disconnect(active_connections, c)
                   /\ UNCHANGED websockets
           /\ IF sent /\ b.i < Len(b.snapshot)
              THEN /\ broadcasts' = [broadcasts EXCEPT ![w][l].i = b.i + 1]
                   /\ UNCHANGED <<updates_loop, metrics_loop>>
              ELSE /\ broadcasts' = [broadcasts EXCEPT ![w][l] = NoBroadcast]
                   /\ updates_loop' = IF l = "updates"
                                      THEN [updates_loop EXCEPT ![w] = "listen"]
                                      ELSE updates_loop
                   /\ metrics_loop' = IF l = "metrics"
                                      THEN [metrics_loop EXCEPT ![w] = [pc |-> "q1", results |-> <<>>, raised |-> "none"]]
                                      ELSE metrics_loop
    /\ UNCHANGED <<handler, subscribed, inbox, pubsub>>
    /\ UNCHANGED gateway_frame

\* ConnectionManager.broadcast, one round of its loop: send_json to the next socket of
\* the snapshot, "except Exception: self.disconnect(connection)"; after the last one
\* broadcast returns and the loop that called it goes on (metrics_loop after its sleep)
broadcast_send(w, l) ==
    /\ broadcasts[w][l].i > 0
    /\ LET b == broadcasts[w][l]
           c == b.snapshot[b.i]
       IN  /\ IF websockets[c].state = "open"
              THEN /\ websockets' = [websockets EXCEPT ![c].received = Append(@, b.message[1])]
                   /\ UNCHANGED active_connections
              ELSE /\ active_connections' = disconnect(active_connections, c)
                   /\ UNCHANGED websockets
           /\ IF b.i < Len(b.snapshot)
              THEN /\ broadcasts' = [broadcasts EXCEPT ![w][l].i = b.i + 1]
                   /\ UNCHANGED <<updates_loop, metrics_loop>>
              ELSE /\ broadcasts' = [broadcasts EXCEPT ![w][l] = NoBroadcast]
                   /\ updates_loop' = IF l = "updates"
                                      THEN [updates_loop EXCEPT ![w] = "listen"]
                                      ELSE updates_loop
                   /\ metrics_loop' = IF l = "metrics"
                                      THEN [metrics_loop EXCEPT ![w] = [pc |-> "q1", results |-> <<>>, raised |-> "none"]]
                                      ELSE metrics_loop
    /\ UNCHANGED <<handler, subscribed, inbox, pubsub>>
    /\ UNCHANGED gateway_frame

\* updates_loop is back at listen() after the handler has closed the Redis client:
\* listen() raises on the closed connection, or connects and subscribes again
listen_on_closed_client(w) ==
    /\ updates_loop[w] = "listen"
    /\ handler[w].pc = "ended"
    /\ w \notin subscribed
    /\ \/ /\ updates_loop' = [updates_loop EXCEPT ![w] = "raised"]
          /\ UNCHANGED subscribed
       \/ /\ subscribed' = subscribed \cup {w}
          /\ UNCHANGED updates_loop
    /\ UNCHANGED <<active_connections, websockets, handler, inbox, metrics_loop,
                   broadcasts, pubsub>>
    /\ UNCHANGED gateway_frame

\* the hours metrics_loop asks get_distribution for, lines 439-447
metrics_hours == [created |-> 1, q1 |-> 1, q60 |-> 60, q24 |-> 24]

metrics_next == [created |-> "q60", q1 |-> "q60", q60 |-> "q24", q24 |-> "frame"]

\* metrics_loop: one "await aggregator.get_distribution(db, hours=..., use_cache=False)";
\* get_distribution raises while it builds its statement, and its TypeError leaves
\* the loop
metrics_query(w) ==
    /\ metrics_loop[w].pc \in {"created", "q1", "q60", "q24"}
    /\ IF func_case_raises
       THEN metrics_loop' = [metrics_loop EXCEPT ![w].pc = "raised", ![w].raised = "TypeError"]
       ELSE metrics_loop' = [metrics_loop EXCEPT
                                ![w].results = Append(@, get_distribution(metrics_hours[metrics_loop[w].pc], <<>>)),
                                ![w].pc = metrics_next[@]]
    /\ UNCHANGED <<active_connections, websockets, handler, subscribed, inbox,
                   updates_loop, broadcasts, pubsub>>
    /\ UNCHANGED gateway_frame

\* metrics_loop, lines 449-474: the frame is built, reading ["total"] at the top of
\* each result (KeyError if the key is not there), and broadcast; the KeyError leaves
\* the loop
metrics_frame(w) ==
    /\ metrics_loop[w].pc = "frame"
    /\ LET r == metrics_loop[w].results IN
       IF \A k \in 1..3 : "total" \in DOMAIN r[k]
       THEN /\ broadcast_called(w, "metrics", metrics_update_frame(r[1], r[2], r[3]))
            /\ metrics_loop' = [metrics_loop EXCEPT ![w] =
                                   IF active_connections = <<>>
                                   THEN [pc |-> "q1", results |-> <<>>, raised |-> "none"]
                                   ELSE [pc |-> "broadcast", results |-> <<>>, raised |-> "none"]]
       ELSE /\ metrics_loop' = [metrics_loop EXCEPT ![w] =
                                   [pc |-> "raised", results |-> r, raised |-> "KeyError"]]
            /\ UNCHANGED broadcasts
    /\ UNCHANGED <<active_connections, websockets, handler, subscribed, inbox,
                   updates_loop, pubsub>>
    /\ UNCHANGED gateway_frame

\* lines 436-475, metrics_loop up to its broadcast: where it is decides what it does next
metrics_loop_step(w) ==
    CASE metrics_loop[w].pc \in {"created", "q1", "q60", "q24"} -> metrics_query(w)
      [] metrics_loop[w].pc = "frame"                            -> metrics_frame(w)
      [] OTHER                                                   -> FALSE

websocket_endpoint(w) ==
    \/ connect(w)
    \/ send_hello(w)
    \/ subscribe(w)
    \/ updates_receive(w)
    \/ metrics_loop_step(w)
    \/ gather_raises(w)
    \/ handler_ends(w)
    \/ listen_on_closed_client(w)
    \/ \E l \in Loops : broadcast_send(w, l)

\* the gateway beside a stopped worker, over the sample Store
GatewayInit ==
    /\ stream = <<>>
    /\ last_delivered = 0
    /\ acked = {}
    /\ calls = [e \in Entries |-> NoCall]
    /\ posts = SamplePosts
    /\ analyses = SampleAnalyses
    /\ now = SampleNow
    /\ pubsub = <<>>
    /\ classifier = SampleModels
    /\ processor = ProcessorOff
    /\ messages_processed = 0
    /\ messages_failed = 0
    /\ run_pc = "read"
    /\ backoff = BackoffStart
    /\ slept = 0
    /\ polls = 0
    /\ batch_size = BatchSize
    /\ QueriesOff
    /\ AlertOff
    /\ GatewayStart

GatewayNext ==
    \/ event_published
    \/ \E w \in Sockets : client_closes(w)
    \/ \E w \in Sockets : websocket_endpoint(w)

GatewaySpec == GatewayInit /\ [][GatewayNext]_vars

\* manager.broadcast on its own: the lists of distinct sockets active_connections can be
ConnectionLists ==
    {c \in UNION {[1..n -> Sockets] : n \in 1..MaxSockets} :
        \A i \in DOMAIN c : \A j \in DOMAIN c : c[i] = c[j] => i = j}

\* every handler is in its gather; some updates loops have just called broadcast with
\* the frame of an event, over any list of connections whose clients are open or gone
BroadcastInit ==
    /\ stream = <<>>
    /\ last_delivered = 0
    /\ acked = {}
    /\ calls = [e \in Entries |-> NoCall]
    /\ posts = SamplePosts
    /\ analyses = SampleAnalyses
    /\ now = SampleNow
    /\ pubsub = <<>>
    /\ classifier = SampleModels
    /\ processor = ProcessorOff
    /\ messages_processed = 0
    /\ messages_failed = 0
    /\ run_pc = "read"
    /\ backoff = BackoffStart
    /\ slept = 0
    /\ polls = 0
    /\ batch_size = BatchSize
    /\ QueriesOff
    /\ AlertOff
    /\ active_connections \in ConnectionLists
    /\ websockets \in [Sockets -> {[state |-> st, received |-> <<>>] : st \in {"open", "closed"}}]
    /\ handler = [w \in Sockets |-> [pc |-> "gather", raised |-> "none"]]
    /\ subscribed = Sockets
    /\ inbox = [w \in Sockets |-> <<>>]
    /\ metrics_loop = [w \in Sockets |-> [pc |-> "q1", results |-> <<>>, raised |-> "none"]]
    /\ \E callers \in (SUBSET Sockets) \ {{}} :
          /\ updates_loop = [w \in Sockets |-> IF w \in callers THEN "broadcast" ELSE "listen"]
          /\ broadcasts = [w \in Sockets |->
                              [l \in Loops |->
                                  IF w \in callers /\ l = "updates"
                                  THEN [message  |-> <<new_post_frame(SampleEvent(w))>>,
                                        snapshot |-> active_connections,
                                        i        |-> 1]
                                  ELSE NoBroadcast]]

BroadcastNext ==
    \/ \E w \in Sockets : client_closes(w)
    \/ \E w \in Sockets : \E l \in Loops : broadcast_send(w, l)

BroadcastSpec == BroadcastInit /\ [][BroadcastNext]_vars

\* ------------------------------------------------------------- aggregates
\* SentimentAggregator (aggregrator.py) and the query routes (routes.py). The clock
\* counts minutes and every step happens at a whole minute.
Day == 24 * Hour

\* func.date_trunc(period, analyzed_at), chosen by lines 54-59
date_trunc(period, t) ==
    IF period = "minute" THEN t
    ELSE IF period = "day" THEN t - (t % Day)
    ELSE t - (t % Hour)

\* the analyses joined with their posts, analyzed within [start_dt, end_dt], of one
\* source if given
RangeRows(start_dt, end_dt, source) ==
    {ij \in (1..Len(analyses)) \X (1..Len(posts)) :
        /\ posts[ij[2]].post_id = analyses[ij[1]].post_id
        /\ analyses[ij[1]].analyzed_at >= start_dt
        /\ analyses[ij[1]].analyzed_at <= end_dt
        /\ source /= <<>> => posts[ij[2]].source = source[1]}

\* ORDER BY bucket
RECURSIVE SortedSeq(_)
SortedSeq(S) ==
    IF S = {} THEN <<>>
    ELSE LET least == CHOOSE x \in S : \A y \in S : x <= y
         IN  <<least>> \o SortedSeq(S \ {least})

RECURSIVE sum_confidence(_)
sum_confidence(rows) ==
    IF rows = {} THEN 0
    ELSE LET ij == CHOOSE r \in rows : TRUE
         IN  analyses[ij[1]].confidence_score + sum_confidence(rows \ {ij})

\* the rows of the GROUP BY query of lines 61-86: one row per bucket that holds an analysis
bucket_rows(period, start_dt, end_dt, source) ==
    LET rows      == RangeRows(start_dt, end_dt, source)
        bucket(ij) == date_trunc(period, analyses[ij[1]].analyzed_at)
        buckets   == SortedSeq({bucket(ij) : ij \in rows})
        group(b)  == {ij \in rows : bucket(ij) = b}
    IN  [k \in 1..Len(buckets) |->
            [bucket         |-> buckets[k],
             positive_count |-> sum_case(group(buckets[k]), "positive"),
             negative_count |-> sum_case(group(buckets[k]), "negative"),
             neutral_count  |-> sum_case(group(buckets[k]), "neutral"),
             total_count    |-> Cardinality(group(buckets[k])),
             avg_confidence |-> Fraction(sum_confidence(group(buckets[k])),
                                         Cardinality(group(buckets[k])))]]

\* the loop of lines 88-126 (routes.py 245-283) from row i on; z: the timestamp of the
\* bucket is written with "Z"
RECURSIVE aggregate_loop(_, _, _, _)
aggregate_loop(rows, i, acc, z) ==
    IF i > Len(rows) THEN acc
    ELSE LET r == rows[i] IN
         aggregate_loop(rows, i + 1,
            [data |-> Append(acc.data,
                        [timestamp           |-> IF z THEN isoformat_Z(r.bucket)
                                                 ELSE isoformat(r.bucket),
                         positive_count      |-> r.positive_count,
                         negative_count      |-> r.negative_count,
                         neutral_count       |-> r.neutral_count,
                         total_count         |-> r.total_count,
                         positive_percentage |-> percentage(r.positive_count, r.total_count),
                         negative_percentage |-> percentage(r.negative_count, r.total_count),
                         neutral_percentage  |-> percentage(r.neutral_count, r.total_count),
                         average_confidence  |-> r.avg_confidence]),
             total_posts    |-> acc.total_posts + r.total_count,
             total_positive |-> acc.total_positive + r.positive_count,
             total_negative |-> acc.total_negative + r.negative_count,
             total_neutral  |-> acc.total_neutral + r.neutral_count],
            z)

\* lines 88-92
NoBuckets ==
    [data |-> <<>>, total_posts |-> 0, total_positive |-> 0, total_negative |-> 0,
     total_neutral |-> 0]

\* lines 128-133
summary_of(acc) ==
    [total_posts    |-> acc.total_posts,
     positive_total |-> acc.total_positive,
     negative_total |-> acc.total_negative,
     neutral_total  |-> acc.total_neutral]

\* SentimentAggregator.get_aggregate, lines 54-141: the result computed from the Store
aggregate_result(period, start_dt, end_dt, source) ==
    LET acc == aggregate_loop(bucket_rows(period, start_dt, end_dt, source), 1, NoBuckets, FALSE)
    IN  [period     |-> period,
         start_date |-> isoformat(start_dt),
         end_date   |-> isoformat(end_dt),
         data       |-> acc.data,
         summary    |-> summary_of(acc)]

\* the range with a start that defaults to 24 hours before now
aggregate_range_start_from_now(start_date, end_date) ==
    [start_dt |-> IF start_date = <<>> THEN now - 24 * Hour ELSE start_date[1],
     end_dt   |-> IF end_date = <<>> THEN now ELSE end_date[1]]

\* routes.py lines 192-200: end_dt and start_dt of GET /api/sentiment/aggregate
aggregate_range(start_date, end_date) ==
    LET end_dt == IF end_date = <<>> THEN now ELSE end_date[1] IN
    [start_dt |-> IF start_date = <<>> THEN end_dt - 24 * Hour ELSE start_date[1],
     end_dt   |-> end_dt]

\* GET /api/sentiment/aggregate, lines 243-298: the route computes its answer itself
get_sentiment_aggregate(period, range, source) ==
    LET acc == aggregate_loop(bucket_rows(period, range.start_dt, range.end_dt, source),
                              1, NoBuckets, TRUE)
    IN  [period     |-> period,
         start_date |-> isoformat_Z(range.start_dt),
         end_date   |-> isoformat_Z(range.end_dt),
         data       |-> acc.data,
         summary    |-> summary_of(acc)]

\* GET /api/sentiment/distribution: the route computes its answer itself
get_sentiment_distribution(hours, source) ==
    LET rows     == WindowRows(now - hours * Hour, source)
        positive == sum_case(rows, "positive")
        negative == sum_case(rows, "negative")
        neutral  == sum_case(rows, "neutral")
        total    == Cardinality(rows)
    IN  [timeframe_hours |-> hours,
         source          |-> source,
         distribution    |-> [positive |-> positive, negative |-> negative, neutral |-> neutral],
         total           |-> total,
         percentages     |-> [positive |-> percentage(positive, total),
                              negative |-> percentage(negative, total),
                              neutral  |-> percentage(neutral, total)],
         top_emotions    |-> [joy |-> 0, anger |-> 0, sadness |-> 0, neutral |-> neutral,
                              surprise |-> 0],
         cached          |-> FALSE,
         cached_at       |-> isoformat_Z(now)]

\* ------------------------------------------------------------- queries
\* A query is a record of its arguments, q.op naming the function or the route; the
\* query being served carries where its coroutine is, its locals and the number of
\* Store queries it has made. A served query leaves what it returned or raised.
Called(q) == [q |-> q, pc |-> "called", locals |-> <<>>, store_queries |-> 0]

Serving(op) == request /= <<>> /\ request[1].q.op = op

returns(payload, store_queries) ==
    /\ responses' = Append(responses, [q             |-> request[1].q,
                                       outcome       |-> "returned",
                                       payload       |-> <<payload>>,
                                       store_queries |-> store_queries,
                                       at            |-> now])
    /\ request' = <<>>

raises(exc, store_queries) ==
    /\ responses' = Append(responses, [q             |-> request[1].q,
                                       outcome       |-> exc,
                                       payload       |-> <<>>,
                                       store_queries |-> store_queries,
                                       at            |-> now])
    /\ request' = <<>>

\* what the worker, the monitor and the gateway own
query_frame == <<stream, last_delivered, acked, calls, pubsub, messages_processed,
                 messages_failed, run_pc, backoff, slept, polls, batch_size,
                 classifier, processor, alert_vars, gateway_vars>>

\* ------------------------------------------------------------- the cache
\* settings.redis_cache_prefix (config.py)
cache_prefix == "sentiment_cache"

\* "source or 'all'"
src_of(source) == IF source = <<>> THEN "all" ELSE source[1]

\* the f-strings of lines 32 and 36, as the tuple of their fields
_aggregate_cache_key(period, start_dt, end_dt, source) ==
    <<cache_prefix, "aggregate", period, isoformat(start_dt), isoformat(end_dt), src_of(source)>>

_distribution_cache_key(hours, source) ==
    <<cache_prefix, "distribution", hours, src_of(source)>>

\* json.dumps of a result and json.loads of a blob: a dict of strings, numbers, null,
\* lists and dicts with string keys is read back as it was written
json_dumps(value) == [json |-> value]

json_loads(blob) == blob.json

\* setex(key, 60, blob): the seconds of the entry, and the seconds of a clock unit
CacheTtl == 60

Minute == 60

\* GET: the blob of a key that is set and has not expired, else None
redis_get(key) ==
    IF key \in DOMAIN cache /\ now < cache[key].expires_at THEN <<cache[key].blob>> ELSE <<>>

\* SETEX: the key is set or overwritten and lives for ttl seconds
redis_setex(key, ttl, blob) ==
    [k \in (DOMAIN cache) \cup {key} |->
        IF k = key THEN [blob |-> blob, expires_at |-> now + ttl \div Minute] ELSE cache[k]]

\* ------------------------------------------------------------- get_distribution
\* lines 155-182: the clock is read, the key built and, with use_cache, the cache
\* asked; redis.get is awaited outside any try. After a miss the statement is built,
\* which raises before the query is awaited.
distribution_get ==
    /\ Serving("get_distribution")
    /\ request[1].pc = "called"
    /\ request[1].q.use_cache
    /\ LET q   == request[1].q
           key == _distribution_cache_key(q.hours, q.source)
       IN  \E cache_error \in BOOLEAN :
            IF cache_error
            THEN raises("ConnectionError", 0)
            ELSE LET cached == redis_get(key) IN
                 IF cached /= <<>>
                 THEN returns([json_loads(cached[1]) EXCEPT !.cached = TRUE,
                                                            !.cached_at = isoformat(now)], 0)
                 ELSE IF func_case_raises
                 THEN raises("TypeError", 0)
                 ELSE /\ request' = <<[request[1] EXCEPT !.pc = "query",
                                                         !.locals = [now |-> now, key |-> key]]>>
                      /\ UNCHANGED responses
    /\ UNCHANGED <<cache, posts, analyses, now>>
    /\ UNCHANGED query_frame

\* lines 167-217: the query is awaited and the result built; without use_cache the
\* statement is built in the first step of the call, which raises, and the query
\* would be the first await of the call
distribution_query ==
    /\ Serving("get_distribution")
    /\ \/ request[1].pc = "query"
       \/ request[1].pc = "called" /\ ~request[1].q.use_cache
    /\ LET q  == request[1].q
           at == IF request[1].pc = "called" THEN now ELSE request[1].locals.now
       IN  \E db_error \in BOOLEAN :
            IF request[1].pc = "called" /\ func_case_raises
            THEN raises("TypeError", 0)
            ELSE IF db_error
            THEN raises("OperationalError", 1)
            ELSE IF q.use_cache
                 THEN /\ request' = <<[request[1] EXCEPT
                                          !.pc = "setex",
                                          !.store_queries = 1,
                                          !.locals = [now    |-> at,
                                                      key    |-> request[1].locals.key,
                                                      result |-> distribution_result(at, q.hours, q.source)]]>>
                      /\ UNCHANGED responses
                 ELSE returns(distribution_result(at, q.hours, q.source), 1)
    /\ UNCHANGED <<cache, posts, analyses, now>>
    /\ UNCHANGED query_frame

\* lines 219-222: the result is written to the cache and returned; redis.setex is
\* awaited outside any try
distribution_setex ==
    /\ Serving("get_distribution")
    /\ request[1].pc = "setex"
    /\ LET l == request[1].locals IN
       \E cache_error \in BOOLEAN :
            IF cache_error
            THEN /\ raises("ConnectionError", request[1].store_queries)
                 /\ UNCHANGED cache
            ELSE /\ cache' = redis_setex(l.key, CacheTtl, json_dumps(l.result))
                 /\ returns(l.result, request[1].store_queries)
    /\ UNCHANGED <<posts, analyses, now>>
    /\ UNCHANGED query_frame

\* get_distribution, from one await to the next: where the call is decides what it
\* does next
get_distribution_call ==
    /\ Serving("get_distribution")
    /\ CASE request[1].pc = "called" /\ request[1].q.use_cache -> distribution_get
         [] request[1].pc = "setex"                            -> distribution_setex
         [] OTHER                                              -> distribution_query

\* ------------------------------------------------------------- get_aggregate
\* lines 47-84: the cache is asked; after a miss the statement is built, which raises
\* before the query is awaited
aggregate_get ==
    /\ Serving("get_aggregate")
    /\ request[1].pc = "called"
    /\ request[1].q.use_cache
    /\ LET q   == request[1].q
           key == _aggregate_cache_key(q.period, q.start_dt, q.end_dt, q.source)
       IN  \E cache_error \in BOOLEAN :
            IF cache_error
            THEN raises("ConnectionError", 0)
            ELSE LET cached == redis_get(key) IN
                 IF cached /= <<>>
                 THEN returns(json_loads(cached[1]), 0)
                 ELSE IF func_case_raises
                 THEN raises("TypeError", 0)
                 ELSE /\ request' = <<[request[1] EXCEPT !.pc = "query",
                                                         !.locals = [key |-> key]]>>
                      /\ UNCHANGED responses
    /\ UNCHANGED <<cache, posts, analyses, now>>
    /\ UNCHANGED query_frame

\* lines 54-141; without use_cache the statement is built in the first step of the
\* call, which raises
aggregate_query ==
    /\ Serving("get_aggregate")
    /\ \/ request[1].pc = "query"
       \/ request[1].pc = "called" /\ ~request[1].q.use_cache
    /\ LET q == request[1].q IN
       \E db_error \in BOOLEAN :
            IF request[1].pc = "called" /\ func_case_raises
            THEN raises("TypeError", 0)
            ELSE IF db_error
            THEN raises("OperationalError", 1)
            ELSE IF q.use_cache
                 THEN /\ request' = <<[request[1] EXCEPT
                                          !.pc = "setex",
                                          !.store_queries = 1,
                                          !.locals = [key    |-> request[1].locals.key,
                                                      result |-> aggregate_result(q.period, q.start_dt, q.end_dt, q.source)]]>>
                      /\ UNCHANGED responses
                 ELSE returns(aggregate_result(q.period, q.start_dt, q.end_dt, q.source), 1)
    /\ UNCHANGED <<cache, posts, analyses, now>>
    /\ UNCHANGED query_frame

\* lines 143-146
aggregate_setex ==
    /\ Serving("get_aggregate")
    /\ request[1].pc = "setex"
    /\ LET l == request[1].locals IN
       \E cache_error \in BOOLEAN :
            IF cache_error
            THEN /\ raises("ConnectionError", request[1].store_queries)
                 /\ UNCHANGED cache
            ELSE /\ cache' = redis_setex(l.key, CacheTtl, json_dumps(l.result))
                 /\ returns(l.result, request[1].store_queries)
    /\ UNCHANGED <<posts, analyses, now>>
    /\ UNCHANGED query_frame

\* get_aggregate, from one await to the next
get_aggregate_call ==
    /\ Serving("get_aggregate")
    /\ CASE request[1].pc = "called" /\ request[1].q.use_cache -> aggregate_get
         [] request[1].pc = "setex"                            -> aggregate_setex
         [] OTHER                                              -> aggregate_query

\* ------------------------------------------------------------- GET /api/posts
\* social_media_posts LEFT OUTER JOIN sentiment_analysis: <<i, j>> is post i with its
\* analysis j, <<i, 0>> a post without analysis
OuterJoin ==
    {ij \in (1..Len(posts)) \X (0..Len(analyses)) :
        IF ij[2] = 0
        THEN \A j \in 1..Len(analyses) : analyses[j].post_id /= posts[ij[1]].post_id
        ELSE analyses[ij[2]].post_id = posts[ij[1]].post_id}

\* lines 126-137: the filters that were given, all of them
Matching(q) ==
    {ij \in OuterJoin :
        /\ q.source /= <<>> => posts[ij[1]].source = q.source[1]
        /\ q.sentiment /= <<>> =>
              ij[2] /= 0 /\ analyses[ij[2]].sentiment_label = q.sentiment[1]
        /\ q.start_date /= <<>> => posts[ij[1]].created_at >= q.start_date[1]
        /\ q.end_date /= <<>> => posts[ij[1]].created_at <= q.end_date[1]}

\* ORDER BY created_at, ascending
Orderings_ascending(rows) ==
    {f \in [1..Cardinality(rows) -> rows] :
        /\ \A i \in DOMAIN f : \A j \in DOMAIN f : f[i] = f[j] => i = j
        /\ \A i \in DOMAIN f : \A j \in DOMAIN f :
              i < j => posts[f[i][1]].created_at <= posts[f[j][1]].created_at}

\* ORDER BY created_at DESC: every order of the rows that never goes up; rows of the
\* same created_at come in the order the database likes
Orderings(rows) ==
    {f \in [1..Cardinality(rows) -> rows] :
        /\ \A i \in DOMAIN f : \A j \in DOMAIN f : f[i] = f[j] => i = j
        /\ \A i \in DOMAIN f : \A j \in DOMAIN f :
              i < j => posts[f[i][1]].created_at >= posts[f[j][1]].created_at}

\* LIMIT limit OFFSET offset
page_of(ordered, limit, offset) == SubSeq(ordered, offset + 1, Min(offset + limit, Len(ordered)))

\* lines 149-165
post_item(ij) ==
    [post_id    |-> posts[ij[1]].post_id,
     source     |-> posts[ij[1]].source,
     content    |-> posts[ij[1]].content,
     author     |-> posts[ij[1]].author,
     created_at |-> isoformat_Z(posts[ij[1]].created_at),
     sentiment  |-> IF ij[2] = 0 THEN <<>>
                    ELSE <<[label      |-> analyses[ij[2]].sentiment_label,
                            confidence |-> analyses[ij[2]].confidence_score,
                            emotion    |-> analyses[ij[2]].emotion,
                            model_name |-> analyses[ij[2]].model_name]>>]

\* lines 167-178
posts_response(q, rows, total) ==
    [posts   |-> [k \in 1..Len(rows) |-> post_item(rows[k])],
     total   |-> total,
     limit   |-> q.limit,
     offset  |-> q.offset,
     filters |-> [source     |-> q.source,
                  sentiment  |-> q.sentiment,
                  start_date |-> IF q.start_date = <<>> THEN <<>> ELSE <<isoformat(q.start_date[1])>>,
                  end_date   |-> IF q.end_date = <<>> THEN <<>> ELSE <<isoformat(q.end_date[1])>>]]

\* lines 139-141: the count query
posts_count ==
    /\ Serving("get_posts")
    /\ request[1].pc = "called"
    /\ \E db_error \in BOOLEAN :
        IF db_error
        THEN raises("OperationalError", 1)
        ELSE /\ request' = <<[request[1] EXCEPT
                                 !.pc = "page",
                                 !.store_queries = 1,
                                 !.locals = [total |-> Cardinality(Matching(request[1].q))]]>>
             /\ UNCHANGED responses
    /\ UNCHANGED <<cache, posts, analyses, now>>
    /\ UNCHANGED query_frame

\* lines 143-178: the page query and the response
posts_page ==
    /\ Serving("get_posts")
    /\ request[1].pc = "page"
    /\ LET q == request[1].q IN
       \E db_error \in BOOLEAN :
        IF db_error
        THEN raises("OperationalError", 2)
        ELSE \E ordered \in Orderings(Matching(q)) :
                returns(posts_response(q, page_of(ordered, q.limit, q.offset),
                                       request[1].locals.total), 2)
    /\ UNCHANGED <<cache, posts, analyses, now>>
    /\ UNCHANGED query_frame

get_posts == posts_count \/ posts_page

\* ------------------------------------------------------------- GET /api/health
\* lines 42-53 and 56-65: "select 1" and the three counts, one await each; the first
\* that raises ends the database checks
health_statements == <<"called", "total_posts", "total_analyses", "recent_posts_1h", "ping">>

\* lines 42-49; raised: a statement of the database checks has raised
health_locals ==
    [now |-> now, db_status |-> "disconnected", total_posts |-> 0, total_analyses |-> 0,
     recent_posts_1h |-> 0, raised |-> FALSE]

health_database ==
    /\ Serving("health_check")
    /\ request[1].pc \in {"called", "total_posts", "total_analyses", "recent_posts_1h"}
    /\ LET pc == request[1].pc
           l  == IF pc = "called" THEN health_locals ELSE request[1].locals
           k  == CHOOSE i \in 1..4 : health_statements[i] = pc
       IN  \E db_error \in BOOLEAN :
            request' = <<[request[1] EXCEPT
                !.store_queries = @ + 1,
                !.pc = IF db_error THEN "ping" ELSE health_statements[k + 1],
                !.locals =
                    IF db_error THEN [l EXCEPT !.db_status = "disconnected", !.raised = TRUE]
                    ELSE CASE pc = "called" -> [l EXCEPT !.db_status = "connected"]
                           [] pc = "total_posts" -> [l EXCEPT !.total_posts = Len(posts)]
                           [] pc = "total_analyses" -> [l EXCEPT !.total_analyses = Len(analyses)]
                           [] pc = "recent_posts_1h" ->
                                [l EXCEPT !.recent_posts_1h =
                                    Cardinality({i \in 1..Len(posts) :
                                                    posts[i].created_at >= l.now - Hour})]]>>
    /\ UNCHANGED <<cache, responses, posts, analyses, now>>
    /\ UNCHANGED query_frame

\* lines 77-85 answering 200 whenever the database is connected
overall_database_only(db_status, redis_status) ==
    IF db_status = "connected"
    THEN [overall_status |-> "healthy", status_code |-> 200]
    ELSE IF db_status = "disconnected" /\ redis_status = "disconnected"
    THEN [overall_status |-> "unhealthy", status_code |-> 503]
    ELSE [overall_status |-> "degraded", status_code |-> 503]

\* lines 77-85
overall(db_status, redis_status) ==
    IF db_status = "connected" /\ redis_status = "connected"
    THEN [overall_status |-> "healthy", status_code |-> 200]
    ELSE IF db_status = "disconnected" /\ redis_status = "disconnected"
    THEN [overall_status |-> "unhealthy", status_code |-> 503]
    ELSE [overall_status |-> "degraded", status_code |-> 503]

\* lines 87-100
health_response(l, redis_status, o) ==
    [status_code |-> o.status_code,
     content     |-> [status    |-> o.overall_status,
                      timestamp |-> isoformat_Z(l.now),
                      services  |-> [database |-> l.db_status, redis |-> redis_status],
                      stats     |-> [total_posts     |-> l.total_posts,
                                     total_analyses  |-> l.total_analyses,
                                     recent_posts_1h |-> l.recent_posts_1h]]]

\* lines 69-100: the ping, which answers, answers nothing or raises, and the response;
\* beside the response, what the two probes did
health_ping ==
    /\ Serving("health_check")
    /\ request[1].pc = "ping"
    /\ LET l == request[1].locals IN
       \E pong \in {"True", "False", "raises"} :
          LET redis_status == IF pong = "True" THEN "connected" ELSE "disconnected" IN
          /\ responses' = Append(responses,
                [q             |-> request[1].q,
                 outcome       |-> "returned",
                 payload       |-> <<health_response(l, redis_status, overall(l.db_status, redis_status))>>,
                 store_queries |-> request[1].store_queries,
                 at            |-> now,
                 probes        |-> [database |-> ~l.raised, redis |-> pong = "True"]])
          /\ request' = <<>>
    /\ UNCHANGED <<cache, posts, analyses, now>>
    /\ UNCHANGED query_frame

health_check == health_database \/ health_ping

\* ------------------------------------------------------------- the aggregate routes
\* GET /api/sentiment/aggregate, lines 192-243: the range, then the statement, whose
\* building raises; one query if it were built. Beside the response, the range the
\* route had computed.
sentiment_aggregate_route ==
    /\ Serving("get_sentiment_aggregate")
    /\ LET q     == request[1].q
           range == aggregate_range(q.start_date, q.end_date)
       IN  \E db_error \in BOOLEAN :
            /\ responses' = Append(responses,
                  IF func_case_raises
                  THEN [q |-> q, outcome |-> "TypeError", payload |-> <<>>,
                        store_queries |-> 0, at |-> now, range |-> range]
                  ELSE IF db_error
                  THEN [q |-> q, outcome |-> "OperationalError", payload |-> <<>>,
                        store_queries |-> 1, at |-> now, range |-> range]
                  ELSE [q |-> q, outcome |-> "returned",
                        payload |-> <<get_sentiment_aggregate(q.period, range, q.source)>>,
                        store_queries |-> 1, at |-> now, range |-> range])
            /\ request' = <<>>
    /\ UNCHANGED <<cache, posts, analyses, now>>
    /\ UNCHANGED query_frame

\* GET /api/sentiment/distribution, lines 310-342: the statement, whose building
\* raises; one query if it were built
sentiment_distribution_route ==
    /\ Serving("get_sentiment_distribution")
    /\ LET q == request[1].q IN
       \E db_error \in BOOLEAN :
        IF func_case_raises
        THEN raises("TypeError", 0)
        ELSE IF db_error
        THEN raises("OperationalError", 1)
        ELSE returns(get_sentiment_distribution(q.hours, q.source), 1)
    /\ UNCHANGED <<cache, posts, analyses, now>>
    /\ UNCHANGED query_frame

\* ------------------------------------------------------------- the Store of the queries
\* The queries are asked at QueryNow of a Store of up to MaxEntries posts, each with
\* its analysis (save_post_and_analysis commits both or none), analyzed two days ago,
\* a little more than an hour ago, or now.
QueryNow == 3 * Day + 30

QueryTimes == {QueryNow - 2 * Day, QueryNow - Hour - 1, QueryNow}

Sources == {"twitter", "reddit"}

Labels == {"positive", "negative", "neutral"}

StoreIds == <<"s1", "s2", "s3", "s4">>

StorePost(k, source, t) ==
    [post_id |-> StoreIds[k], source |-> source, content |-> LoveText, author |-> "u1",
     created_at |-> t, ingested_at |-> t]

StoreAnalysis(k, label, t) ==
    [post_id |-> StoreIds[k], model_name |-> LocalModelName, sentiment_label |-> label,
     confidence_score |-> 95, emotion |-> "joy", analyzed_at |-> t]

RowKinds == Sources \X Labels \X QueryTimes

Stores ==
    UNION {{[posts    |-> [k \in 1..n |-> StorePost(k, f[k][1], f[k][3])],
             analyses |-> [k \in 1..n |-> StoreAnalysis(k, f[k][2], f[k][3])]] :
                f \in [1..n -> RowKinds]} : n \in 0..MaxEntries}

\* a worker commits a post and its analysis (processor.py) while a query is served
post_persisted(source, label) ==
    /\ Len(posts) < MaxEntries
    /\ posts' = Append(posts, StorePost(Len(posts) + 1, source, now))
    /\ analyses' = Append(analyses, StoreAnalysis(Len(posts) + 1, label, now))
    /\ UNCHANGED <<cache, request, responses, now>>
    /\ UNCHANGED query_frame

\* the worker is not running
WorkerIdle ==
    /\ stream = <<>>
    /\ last_delivered = 0
    /\ acked = {}
    /\ calls = [e \in Entries |-> NoCall]
    /\ pubsub = <<>>
    /\ classifier = SampleModels
    /\ processor = ProcessorOff
    /\ messages_processed = 0
    /\ messages_failed = 0
    /\ run_pc = "read"
    /\ backoff = BackoffStart
    /\ slept = 0
    /\ polls = 0
    /\ batch_size = BatchSize

\* ------------------------------------------------------------- QuerySpec
\* one query of the API, or one call of the aggregator without its cache, over every Store
OptionalSources == {<<>>, <<"twitter">>}

Periods == {"minute", "hour", "day"}

PostsQueries ==
    {[op |-> "get_posts", limit |-> l, offset |-> o, source |-> s, sentiment |-> se,
      start_date |-> d[1], end_date |-> d[2]] :
        l \in 1..2, o \in 0..1, s \in OptionalSources, se \in {<<>>, <<"positive">>},
        d \in {<<<<>>, <<>>>>, <<<<QueryNow - Hour - 1>>, <<QueryNow>>>>}}

AggregateRouteQueries ==
    {[op |-> "get_sentiment_aggregate", period |-> p, start_date |-> d[1], end_date |-> d[2],
      source |-> s] :
        p \in Periods, s \in OptionalSources,
        d \in {<<<<>>, <<>>>>, <<<<QueryNow - 2 * Day>>, <<QueryNow>>>>,
               <<<<>>, <<QueryNow - Day>>>>, <<<<QueryNow - 2 * Day>>, <<>>>>}}

DistributionRouteQueries ==
    {[op |-> "get_sentiment_distribution", hours |-> h, source |-> s] :
        h \in {1, 24}, s \in OptionalSources}

AggregateCalls ==
    {[op |-> "get_aggregate", period |-> p, start_dt |-> QueryNow - 2 * Day,
      end_dt |-> QueryNow + Day, source |-> s, use_cache |-> FALSE] :
        p \in Periods, s \in OptionalSources}

DistributionCalls ==
    {[op |-> "get_distribution", hours |-> h, source |-> s, use_cache |-> FALSE] :
        h \in {1, 24}, s \in OptionalSources}

HealthQuery == [op |-> "health_check"]

Queries ==
    PostsQueries \cup AggregateRouteQueries \cup DistributionRouteQueries
        \cup AggregateCalls \cup DistributionCalls \cup {HealthQuery}

QueryInit ==
    /\ WorkerIdle
    /\ AlertOff
    /\ GatewayStart
    /\ now = QueryNow
    /\ \E store \in Stores : posts = store.posts /\ analyses = store.analyses
    /\ cache = <<>>
    /\ \E q \in Queries : request = <<Called(q)>>
    /\ responses = <<>>

QueryNext ==
    \/ \E source \in Sources : \E label \in Labels : post_persisted(source, label)
    \/ get_posts
    \/ health_check
    \/ sentiment_aggregate_route
    \/ sentiment_distribution_route
    \/ get_aggregate_call
    \/ get_distribution_call

QuerySpec == QueryInit /\ [][QueryNext]_vars

\* ------------------------------------------------------------- the aggregator with its cache
\* calls of the aggregator with its cache, one after the other, while posts are
\* persisted and the minutes pass
MaxRequests == 2

MaxMinutes == 1

\* the calls: two windows of the distribution; two aggregates over the same range
CachedDistributionCalls ==
    {[op |-> "get_distribution", hours |-> 1, source |-> <<>>, use_cache |-> TRUE],
     [op |-> "get_distribution", hours |-> 24, source |-> <<"twitter">>, use_cache |-> TRUE]}

CachedAggregateCalls ==
    {[op |-> "get_aggregate", period |-> "minute", start_dt |-> QueryNow - Day,
      end_dt |-> QueryNow + Day, source |-> <<>>, use_cache |-> TRUE],
     [op |-> "get_aggregate", period |-> "hour", start_dt |-> QueryNow - Day,
      end_dt |-> QueryNow + Day, source |-> <<"twitter">>, use_cache |-> TRUE]}

\* the same range asked of the route
RepeatedRouteQueries ==
    {[op |-> "get_sentiment_aggregate", period |-> "minute", start_date |-> <<QueryNow - Day>>,
      end_date |-> <<QueryNow + Day>>, source |-> <<>>]}

\* the posts persisted meanwhile
CachePosts == {<<"twitter", "negative">>, <<"reddit", "positive">>}

query_issued(q) ==
    /\ request = <<>>
    /\ Len(responses) < MaxRequests
    /\ request' = <<Called(q)>>
    /\ UNCHANGED <<cache, responses, posts, analyses, now>>
    /\ UNCHANGED query_frame

\* a minute passes; Redis drops the keys that have expired
minute_passes ==
    /\ now < QueryNow + MaxMinutes
    /\ now' = now + 1
    /\ cache' = [k \in {key \in DOMAIN cache : now + 1 < cache[key].expires_at} |-> cache[k]]
    /\ UNCHANGED <<request, responses, posts, analyses>>
    /\ UNCHANGED query_frame

CacheInit ==
    /\ WorkerIdle
    /\ AlertOff
    /\ GatewayStart
    /\ now = QueryNow
    /\ posts = <<>>
    /\ analyses = <<>>
    /\ QueriesOff

DistributionCacheNext ==
    \/ \E q \in CachedDistributionCalls : query_issued(q)
    \/ \E p \in CachePosts : post_persisted(p[1], p[2])
    \/ minute_passes
    \/ get_distribution_call

DistributionCacheSpec == CacheInit /\ [][DistributionCacheNext]_vars

AggregateCacheNext ==
    \/ \E q \in CachedAggregateCalls \cup RepeatedRouteQueries : query_issued(q)
    \/ \E p \in CachePosts : post_persisted(p[1], p[2])
    \/ minute_passes
    \/ get_aggregate_call
    \/ sentiment_aggregate_route

AggregateCacheSpec == CacheInit /\ [][AggregateCacheNext]_vars

\* ------------------------------------------------------------- properties
Delivered(e) == e \in 1..last_delivered

Returned(e) == calls[e].pc = "done"

\* the entry lacks a required field, or its created_at is no ISO-8601 instant
Malformed(m) ==
    \/ ~({"post_id", "source", "content", "author", "created_at"} \subseteq DOMAIN m)
    \/ m.created_at \notin {"2024-01-01T00:00:00Z", "2024-01-01T00:05:00+00:00"}

TreatedAsPoison(e) == calls[e].outcome \in {"invalid_payload", "unexpected_error"}

HasPost(post_id) == \E i \in 1..Len(posts) : posts[i].post_id = post_id

HasAnalysis(post_id) == \E i \in 1..Len(analyses) : analyses[i].post_id = post_id

PostIds == {m.post_id : m \in Messages}

\* C1: an entry is acknowledged only if it was treated as poison or a Post and an
\* Analysis with its post_id are committed in the Store (so an entry whose Store
\* write failed with a transient error stays unacknowledged).
C1_AckedOnlyIfPoisonOrStored ==
    \A e \in acked :
        \/ TreatedAsPoison(e)
        \/ HasPost(stream[e].post_id) /\ HasAnalysis(stream[e].post_id)

\* C2: when the local classifier and then the external classifier raise for an entry,
\* process_message returns False having made those two classifier calls only, with the
\* entry unacknowledged, nothing written to the Store and nothing published.
C2_BothClassifiersFailNoAck ==
    \A e \in Entries :
        (calls[e].db_exc = "sentiment_raised" /\ Returned(e)) =>
            /\ e \notin acked
            /\ e \in Pending
            /\ calls[e].ret = "False"
            /\ calls[e].classifier_calls = 2
            /\ calls[e].saved = "none"
            /\ calls[e].publish = "none"
            /\ ~HasPost(stream[e].post_id) \/ \E o \in Entries :
                   o # e /\ stream[o].post_id = stream[e].post_id /\ calls[o].saved = "committed"

\* both classifiers raised for an entry with a non-blank text, and the call returned
C2_Witness ==
    \E e \in Entries :
        /\ Returned(e)
        /\ calls[e].db_exc = "sentiment_raised"
        /\ calls[e].classifier_calls = 2
        /\ ~strip_is_empty(stream[e].content)

\* C3: under fairness every well-formed, non-blank entry appended to the stream is
\* eventually acknowledged (an unacknowledged entry is delivered again and processed).
C3_EventuallyAcked ==
    \A e \in Entries :
        (e <= Len(stream) /\ ~Malformed(stream[e]) /\ ~strip_is_empty(stream[e].content))
            ~> (e \in acked)

\* an entry without a required field, or with an unparsable created_at, is
\* acknowledged in the step that decodes it, which adds one to messages_failed and
\* returns False; no classifier is called and nothing is written to the Store for it
C4_PoisonStep ==
    \A e \in Entries :
        (calls[e].pc = "decode" /\ calls'[e].pc # "decode" /\ Malformed(stream[e])) =>
            /\ e \in acked'
            /\ messages_failed' = messages_failed + 1
            /\ messages_processed' = messages_processed
            /\ calls'[e].pc = "done"
            /\ calls'[e].ret = "False"
            /\ posts' = posts
            /\ analyses' = analyses

\* C4, afterwards: a handled malformed entry is acknowledged, was never classified,
\* stored or published, and its call returned False
C4_PoisonInv ==
    \A e \in Entries :
        (Delivered(e) /\ Malformed(stream[e]) /\ calls[e].pc # "decode") =>
            /\ e \in acked
            /\ TreatedAsPoison(e)
            /\ calls[e].ret = "False"
            /\ calls[e].classifier_calls = 0
            /\ calls[e].saved = "none"
            /\ calls[e].publish = "none"

\* C4 as stated: a malformed entry is treated as poison: it is acknowledged, no
\* classifier is called and nothing is stored for it, messages_failed grows by one
\* and process_message returns False (the step property and the invariant above).
C4_PoisonAcked == [][C4_PoisonStep]_vars /\ []C4_PoisonInv

\* the same step, with the xack that may raise
C4_XackStep ==
    \A e \in Entries :
        (calls[e].pc = "decode" /\ calls'[e].pc # "decode" /\ Malformed(stream[e])) =>
            /\ calls'[e].xack # "none"
            /\ e \in acked' <=> calls'[e].xack = "answered"
            /\ messages_failed' = messages_failed + 1
            /\ messages_processed' = messages_processed
            /\ calls'[e].pc = "done"
            /\ calls'[e].ret = "False"
            /\ posts' = posts
            /\ analyses' = analyses

C4_XackInv ==
    \A e \in Entries :
        (Delivered(e) /\ Malformed(stream[e]) /\ calls[e].pc # "decode") =>
            /\ calls[e].xack # "none"
            /\ e \in acked <=> calls[e].xack = "answered"
            /\ TreatedAsPoison(e)
            /\ calls[e].ret = "False"
            /\ calls[e].classifier_calls = 0
            /\ calls[e].saved = "none"
            /\ calls[e].publish = "none"

\* C4, with the acknowledgement that can fail: a malformed entry is treated as
\* poison: its xack is sent, and sent again by the outer handler when the first
\* raised, and the entry is acknowledged exactly if the last of them answered; no
\* classifier is called and nothing is stored for it, messages_failed grows by one
\* and process_message returns False.
C4_PoisonAckedIfXackAnswers == [][C4_XackStep]_vars /\ []C4_XackInv

\* an entry without author was acknowledged by the handler's xack after its own xack
\* raised, and an entry with a malformed created_at stays pending, its xack raised
C4_Witness ==
    \E e1, e2 \in Entries :
        /\ Returned(e1) /\ missing_required(stream[e1])
        /\ calls[e1].exc = "xack" /\ e1 \in acked
        /\ Returned(e2) /\ calls[e2].exc = "ValueError"
        /\ calls[e2].xack = "raised" /\ e2 \notin acked

\* C5: a call whose emotion classification raised (after its sentiment classification
\* succeeded) still ends with the entry acknowledged and True returned.
C5_EmotionFailureStillAcked ==
    \A e \in Entries :
        calls[e].outcome = "emotion_raised" => (e \in acked /\ calls[e].ret = "True")

\* C6: the Store holds at most one Post row and at most one Analysis row per post_id.
C6_OneRowPerPostId ==
    /\ \A i, j \in 1..Len(posts) : posts[i].post_id = posts[j].post_id => i = j
    /\ \A i, j \in 1..Len(analyses) : analyses[i].post_id = analyses[j].post_id => i = j

\* two entries with the same post_id both went through the Store write
C6_Witness ==
    \E e1, e2 \in Entries :
        /\ e1 # e2
        /\ e1 <= Len(stream) /\ e2 <= Len(stream)
        /\ stream[e1].post_id = stream[e2].post_id
        /\ calls[e1].saved = "committed"
        /\ calls[e2].saved = "IntegrityError"
        /\ HasPost(stream[e1].post_id)

\* C7: the Store write for a post_id that already exists sets the existing Post's
\* ingested_at to the time of this write, keeps its other fields and the Analysis.
C7_DuplicateRefreshesIngestedAt ==
    [][\A e \in Entries :
          (calls[e].pc = "insert_post" /\ calls'[e].saved = "IntegrityError") =>
              /\ \E i \in 1..Len(posts') :
                    /\ posts'[i].post_id = stream[e].post_id
                    /\ posts'[i].ingested_at = now
                    /\ posts'[i] = [posts[i] EXCEPT !.ingested_at = now]
              /\ analyses' = analyses]_vars

\* C8: in every Store state a post_id has a Post row exactly if it has an Analysis
\* row: both rows of a write are committed, or neither is.
C8_PostIffAnalysis ==
    \A post_id \in PostIds : HasPost(post_id) <=> HasAnalysis(post_id)

\* one write was committed with both its rows and another one failed and left no
\* row: the Store holds one Post and one Analysis
C8_Witness ==
    \E e1, e2 \in Entries :
        /\ calls[e1].saved = "committed"
        /\ calls[e2].saved = "OperationalError"
        /\ Len(posts) = 1 /\ Len(analyses) = 1
        /\ HasPost(stream[e1].post_id) /\ HasAnalysis(stream[e1].post_id)

\* C9 as stated: a call whose Store write was committed and whose publish raised
\* goes on to acknowledge the entry, returns True and is counted in
\* messages_processed.
C9_PublishFailureStillAcked ==
    /\ \A e \in Entries :
          (calls[e].saved = "committed" /\ calls[e].publish = "failed") =>
              \/ calls[e].pc = "xack"
              \/ /\ Returned(e)
                 /\ e \in acked
                 /\ calls[e].ret = "True"
                 /\ calls[e].outcome = "processed"
    /\ messages_processed = Cardinality({e \in Entries : calls[e].outcome = "processed"})

\* C9, with the acknowledgement that can fail: a call whose Store write was
\* committed and whose publish raised goes on to its xack as if the publish had
\* answered; when that xack answers, the entry is acknowledged, True is returned
\* and the call is counted in messages_processed; when it raises, the call ends in
\* the outer handler.
C9_PublishFailureReachesXack ==
    /\ \A e \in Entries :
          (calls[e].saved = "committed" /\ calls[e].publish = "failed") =>
              \/ calls[e].pc = "xack"
              \/ /\ Returned(e)
                 /\ calls[e].xack # "none"
                 /\ calls[e].exc \in {"none", "xack"}
                 /\ calls[e].exc = "none" =>
                       /\ e \in acked
                       /\ calls[e].ret = "True"
                       /\ calls[e].outcome = "processed"
                 /\ calls[e].exc = "xack" =>
                       /\ calls[e].ret = "False"
                       /\ e \in acked <=> calls[e].xack = "answered"
    /\ messages_processed = Cardinality({e \in Entries : calls[e].outcome = "processed"})

\* the Store write was committed, the publish raised, the xack answered
C9_Witness ==
    \E e \in Entries :
        /\ calls[e].saved = "committed"
        /\ calls[e].publish = "failed"
        /\ Returned(e)
        /\ calls[e].exc = "none"
        /\ e \in acked
        /\ calls[e].ret = "True"

\* C10: an event is published only for an entry whose Post and Analysis are committed
\* in the Store, and a non-poison entry is acknowledged after its publish attempt.
C10_PublishOnlyAfterCommit ==
    \A e \in Entries :
        /\ calls[e].publish = "sent" =>
              (HasPost(stream[e].post_id) /\ HasAnalysis(stream[e].post_id))
        /\ (e \in acked /\ ~TreatedAsPoison(e)) => calls[e].publish # "none"

\* ------------------------------------------------------------- run(): batches and backoff
\* C11: the worker never has more than batch_size entries in flight: every delivered
\* entry has its own process_message call, an undelivered one has none, and run() is
\* back at xreadgroup only when no call of the batch is still running
C11_AtMostBatchSizeInFlight ==
    /\ Cardinality({e \in Entries : InFlight(e)}) <= batch_size
    /\ \A e \in Entries : (calls[e].pc /= "idle") <=> Delivered(e)
    /\ run_pc = "read" => \A e \in Entries : ~InFlight(e)

\* a full batch is in flight while a further entry waits in the stream
C11_Witness ==
    /\ Cardinality({e \in Entries : InFlight(e)}) = batch_size
    /\ last_delivered < Len(stream)
    /\ run_pc = "gather"

\* C12: the delay starts at 1, doubles with every connection error in a row and stops
\* at 30: the delays slept are 1, 2, 4, 8, 16, 30, 30, ..., and 1 <= backoff <= 30
C12_BackoffDoublesToCap ==
    /\ 1 <= backoff /\ backoff <= 30
    /\ <<slept, backoff>> \in {<<0, 1>>, <<1, 2>>, <<2, 4>>, <<4, 8>>, <<8, 16>>,
                               <<16, 30>>, <<30, 30>>}

\* the delay slept has reached the cap
C12_Witness == slept = 30 /\ backoff = 30

\* ------------------------------------------------------------- check_thresholds
\* the condition of the alert on the row of the window: enough analyses and a ratio
\* strictly above the threshold
Above(row) ==
    \/ row.positive > 0 /\ row.negative > negative_ratio_threshold * row.positive
    \/ row.positive = 0 /\ row.negative > 0

Fires(row) == row.total >= min_posts /\ Above(row)

\* "alert = await self.check_thresholds()" has returned
CheckReturns == alert_pc = "check" /\ alert_pc' \in {"save", "sleep"}

\* C19: a window with fewer analyses than min_posts gives no alert, whatever the
\* labels: check_thresholds returns None and nothing is saved
C19_BelowMinPostsNoAlert ==
    [][alert_pc = "check" /\ alert_row.total < min_posts =>
           CheckReturns /\ alert' = <<>> /\ alerts' = <<>>]_vars

\* C20: with total >= min_posts the ratio is negative/positive when positive > 0,
\* infinite when positive = 0 and negative > 0, and 0 when both are 0; an alert is
\* returned exactly when the ratio is strictly above the threshold, and it carries the
\* ratio. 3 positive and 7 negative trigger with 7/3; 3 and 6 (ratio 2) do not.
C20_StrictlyAboveThreshold ==
    [][alert_pc = "check" /\ alert_row.total >= min_posts =>
           LET pos == alert_row.positive
               neg == alert_row.negative
               returned == alert'
           IN  /\ CheckReturns
               /\ returned /= <<>> <=> Above(alert_row)
               /\ returned /= <<>> /\ pos > 0 =>
                      /\ returned[1].actual_ratio.num * pos = neg * returned[1].actual_ratio.den
                      /\ returned[1].actual_ratio.den > 0
               /\ returned /= <<>> /\ pos = 0 => returned[1].actual_ratio.den = 0
               /\ pos = 3 /\ neg = 7 =>
                      returned /= <<>> /\ returned[1].actual_ratio = [num |-> 7, den |-> 3]
               /\ pos = 3 /\ neg = 6 => returned = <<>>]_vars

\* ------------------------------------------------------------- save_alert
\* C21: on a tick where the ratio exceeds the threshold, once the round is at its
\* sleep the Store holds an alert record of that window (its type, threshold and ratio).
C21_AlertPersisted ==
    (alert_pc \in {"sleep", "raised"} /\ Fires(alert_row)) =>
        \E i \in 1..Len(alerts) :
            /\ alerts[i].alert_type = "high_negative_ratio"
            /\ alerts[i].threshold_value = negative_ratio_threshold
            /\ alerts[i].actual_value = ratio_of(alert_row)

\* C22: every tick on which the condition holds appends one new alert record and
\* leaves the records that were there as they were (no deduplication, no mutation).
C22_EveryFiringAppends ==
    [][/\ SubSeq(alerts', 1, Len(alerts)) = alerts
       /\ (Fires(alert_row) /\ alert_pc /= "sleep" /\ alert_pc' = "sleep") =>
              Len(alerts') = Len(alerts) + 1]_vars

\* ------------------------------------------------------------- push gateway: properties
\* the place in the channel of the event a new_post frame is for
EventOf(frame) == CHOOSE k \in 1..Len(SamplePostIds) : SamplePostIds[k] = frame.data.post_id

\* the new_post frames socket w got, in the order it got them
NewPosts(w) == SelectSeq(websockets[w].received, LAMBDA f : f.type = "new_post")

FramesFor(w, k) == {i \in 1..Len(NewPosts(w)) : EventOf(NewPosts(w)[i]) = k}

\* C13: no subscriber gets more than one new_post frame for one published post event
C13_OneFramePerEvent ==
    \A w \in Sockets : \A k \in 1..Len(pubsub) : Cardinality(FramesFor(w, k)) <= 1

\* C14: a broadcast goes through its whole snapshot. A send to an open socket delivers
\* the frame; a failed send takes that socket off active_connections; either way the
\* broadcast moves on to the next socket of the snapshot, and nothing is raised into
\* the loop or the handler that called it.
C14_Step ==
    \A w \in Sockets : \A l \in Loops :
        broadcasts[w][l].i > 0 /\ broadcasts'[w][l] /= broadcasts[w][l] =>
            LET b == broadcasts[w][l]
                c == b.snapshot[b.i]
            IN  /\ websockets[c].state = "open" =>
                       websockets'[c].received = Append(websockets[c].received, b.message[1])
                /\ websockets[c].state /= "open" =>
                       \A k \in 1..Len(active_connections') : active_connections'[k] /= c
                /\ b.i < Len(b.snapshot) => broadcasts'[w][l] = [b EXCEPT !.i = b.i + 1]
                /\ b.i = Len(b.snapshot) => broadcasts'[w][l] = NoBroadcast
                /\ handler'[w] = handler[w]
                /\ l = "updates" => updates_loop'[w] \in {"broadcast", "listen"}
                /\ l = "metrics" => metrics_loop'[w].pc \in {"broadcast", "q1"}

\* C14: every socket of the snapshot the broadcast has passed has the frame or is
\* off active_connections
C14_Passed ==
    \A w \in Sockets : \A l \in Loops : \A j \in 1..Len(broadcasts[w][l].snapshot) :
        j < broadcasts[w][l].i =>
            LET c == broadcasts[w][l].snapshot[j] IN
            \/ \E n \in 1..Len(websockets[c].received) :
                   websockets[c].received[n] = broadcasts[w][l].message[1]
            \/ \A k \in 1..Len(active_connections) : active_connections[k] /= c

\* C14: broadcast sends to every socket of its snapshot, deregisters the ones whose
\* send fails and never raises
C14_BroadcastSurvivesFailedSend == [][C14_Step]_vars /\ []C14_Passed

\* a broadcast over two sockets: the send to the first failed and took it off the
\* list, the second, open, is next
C14_Witness ==
    \E w \in Sockets : \E l \in Loops :
        LET b == broadcasts[w][l] IN
        /\ b.i = 2
        /\ Len(b.snapshot) = 2
        /\ websockets[b.snapshot[1]].state = "closed"
        /\ \A k \in 1..Len(active_connections) : active_connections[k] /= b.snapshot[1]
        /\ \A n \in 1..Len(websockets[b.snapshot[1]].received) :
               websockets[b.snapshot[1]].received[n] /= b.message[1]
        /\ websockets[b.snapshot[2]].state = "open"

Registered(w) == \E k \in 1..Len(active_connections) : active_connections[k] = w

\* C15: a socket whose handler has ended is not in active_connections
C15_EndedHandlerDeregistered ==
    \A w \in Sockets : handler[w].pc = "ended" => ~Registered(w)

\* C16: no producer loop goes on for a socket that is no longer in active_connections:
\* once the socket is off the list, its handler's loops start no further broadcast
C16_NoProducerAfterDeregistration ==
    [][\A w \in Sockets : \A l \in Loops :
          handler[w].pc /= "idle" /\ ~Registered(w) =>
              ~(broadcasts[w][l].i = 0 /\ broadcasts'[w][l].i > 0)]_vars

\* C17: the new_post frames of a subscriber are in the order of their events
C17_FramesInPublishOrder ==
    \A w \in Sockets : \A i \in 1..Len(NewPosts(w)) : \A j \in 1..Len(NewPosts(w)) :
        i < j => EventOf(NewPosts(w)[i]) <= EventOf(NewPosts(w)[j])

\* positive, negative, neutral and total of the analyses of the last "minutes" minutes
WindowCounts(minutes) ==
    LET rows == WindowRows(now - minutes, <<>>) IN
    [positive |-> sum_case(rows, "positive"), negative |-> sum_case(rows, "negative"),
     neutral  |-> sum_case(rows, "neutral"),  total    |-> Cardinality(rows)]

CountsOf(result) ==
    [positive |-> result.distribution.positive, negative |-> result.distribution.negative,
     neutral  |-> result.distribution.neutral,  total    |-> result.distribution.total]

\* C18: the three results metrics_loop builds its frame from are the distributions of
\* the last minute, the last hour and the last 24 hours, and the frame is built
C18_MetricsWindows ==
    \A w \in Sockets :
        LET r == metrics_loop[w].results IN
        /\ metrics_loop[w].pc /= "raised"
        /\ Len(r) >= 1 => CountsOf(r[1]) = WindowCounts(1)
        /\ Len(r) >= 2 => CountsOf(r[2]) = WindowCounts(Hour)
        /\ Len(r) >= 3 => CountsOf(r[3]) = WindowCounts(24 * Hour)

\* ------------------------------------------------------------- the cache: properties
\* the analyses of one label that a distribution over (since, source) counts
Counted(since, source, label) ==
    Cardinality({i \in 1..Len(analyses) :
        /\ analyses[i].sentiment_label = label
        /\ analyses[i].analyzed_at >= since
        /\ \E j \in 1..Len(posts) :
              /\ posts[j].post_id = analyses[i].post_id
              /\ source /= <<>> => posts[j].source = source[1]})

DistributionKey(q) ==
    <<"sentiment_cache", "distribution", q.hours,
      IF q.source = <<>> THEN "all" ELSE q.source[1]>>

Last(seq) == seq[Len(seq)]

\* the call being served answers in this step
Answers == request /= <<>> /\ request' = <<>> /\ Last(responses').outcome = "returned"

\* the call ended with an error of the cache or of the database
Failed(r) == r.outcome \in {"ConnectionError", "OperationalError"}

\* the call being served ends in this step, and neither the cache nor the database
\* has failed it
Ends == request /= <<>> /\ request' = <<>> /\ ~Failed(Last(responses'))

\* the steps of get_distribution with its cache: a call that ends in its first
\* step, without an error of the cache, is a hit; a miss goes on to the query
C23_Step ==
    Serving("get_distribution") /\ request[1].q.use_cache =>
        LET q    == request[1].q
            key  == DistributionKey(q)
            live == key \in DOMAIN cache /\ now < cache[key].expires_at
        IN  /\ request[1].pc = "called" /\ Ends => Answers
            /\ request[1].pc = "called" /\ Answers =>
                /\ live
                /\ cache' = cache
                /\ Last(responses').store_queries = 0
                /\ Last(responses').payload[1].cached = TRUE
                /\ [Last(responses').payload[1] EXCEPT !.cached = FALSE, !.cached_at = 0]
                      = [cache[key].blob.json EXCEPT !.cached = FALSE, !.cached_at = 0]
            /\ request[1].pc = "called" /\ request' /= <<>> /\ request'[1].pc = "query" => ~live
            /\ request[1].pc = "query" /\ request' /= <<>> /\ request'[1].pc = "setex" =>
                LET r     == request'[1].locals.result
                    since == request[1].locals.now - q.hours * 60
                IN  /\ r.timeframe_hours = q.hours
                    /\ r.source = q.source
                    /\ r.cached = FALSE
                    /\ r.distribution.total =
                          Counted(since, q.source, "positive") + Counted(since, q.source, "negative")
                            + Counted(since, q.source, "neutral")
                    /\ r.distribution.total > 0 =>
                          /\ r.distribution.positive = Counted(since, q.source, "positive")
                          /\ r.distribution.negative = Counted(since, q.source, "negative")
                          /\ r.distribution.neutral = Counted(since, q.source, "neutral")
            /\ request[1].pc = "setex" /\ Answers =>
                /\ Last(responses').payload[1] = request[1].locals.result
                /\ Last(responses').payload[1].cached = FALSE
                /\ Last(responses').store_queries = 1
                /\ key \in DOMAIN cache'
                /\ cache'[key].blob.json = request[1].locals.result
                /\ cache'[key].expires_at = now + 1
                /\ \A k \in DOMAIN cache' : k /= key => k \in DOMAIN cache /\ cache'[k] = cache[k]

\* a hit answers what the miss that filled the entry answered
C23_Hits ==
    \A j \in 1..Len(responses) :
        LET h == responses[j] IN
        h.q.op = "get_distribution" /\ h.outcome = "returned" /\ h.payload[1].cached =>
            \E i \in 1..(j - 1) :
                LET m == responses[i] IN
                /\ DistributionKey(m.q) = DistributionKey(h.q)
                /\ m.outcome = "returned"
                /\ m.payload[1].cached = FALSE
                /\ m.store_queries = 1
                /\ h.at < m.at + 1
                /\ [h.payload[1] EXCEPT !.cached = FALSE, !.cached_at = m.payload[1].cached_at]
                      = m.payload[1]

\* C23: get_distribution with its cache: on a miss the result is computed from the
\* Store, written under sentiment_cache:distribution:{hours}:{source|all} for 60
\* seconds and returned with cached = false; on a hit the Store is not queried and
\* the payload of the miss that filled the entry is returned with cached = true,
\* the same in every field but cached and cached_at.
C23_DistributionCache == [][C23_Step]_vars /\ []C23_Hits

\* C24: a call of the aggregator whose cache get or cache write raises still
\* returns the result computed from the Store: no call ends with the cache's error.
C24_FailOpen ==
    \A i \in 1..Len(responses) :
        responses[i].q.op \in {"get_aggregate", "get_distribution"} =>
            responses[i].outcome /= "ConnectionError"

\* C25: the same aggregate query (period, start, end, source) asked twice within 60
\* seconds is answered with the same payload, whatever was persisted in between.
C25_SameQuerySamePayload ==
    \A i \in 1..Len(responses) : \A j \in 1..Len(responses) :
        /\ i < j
        /\ responses[i].q.op \in {"get_aggregate", "get_sentiment_aggregate"}
        /\ responses[j].q = responses[i].q
        /\ ~Failed(responses[i]) /\ ~Failed(responses[j])
        /\ responses[j].at < responses[i].at + 1
        => /\ responses[i].outcome = "returned" /\ responses[j].outcome = "returned"
           /\ responses[j].payload = responses[i].payload

\* ------------------------------------------------------------- the queries: properties
Answered(op) ==
    {i \in 1..Len(responses) : responses[i].q.op = op /\ responses[i].outcome = "returned"}

RECURSIVE SumOf(_, _, _)
SumOf(data, field, i) ==
    IF i > Len(data) THEN 0 ELSE data[i][field] + SumOf(data, field, i + 1)

AggregateInvariant(r) ==
    /\ \A k \in 1..Len(r.data) :
          /\ r.data[k].positive_count + r.data[k].negative_count + r.data[k].neutral_count
                = r.data[k].total_count
          /\ r.data[k].total_count > 0
    /\ r.summary.total_posts = SumOf(r.data, "total_count", 1)
    /\ r.summary.positive_total = SumOf(r.data, "positive_count", 1)
    /\ r.summary.negative_total = SumOf(r.data, "negative_count", 1)
    /\ r.summary.neutral_total = SumOf(r.data, "neutral_count", 1)

\* C26: every aggregate query, of the route and of get_aggregate, that neither the
\* cache nor the database fails is answered, and in the response each bucket has
\* positive_count + negative_count + neutral_count = total_count and
\* total_count > 0, and the totals of the summary are the sums over the buckets.
C26_AggregateSums ==
    \A i \in 1..Len(responses) :
        (responses[i].q.op \in {"get_sentiment_aggregate", "get_aggregate"}
            /\ ~Failed(responses[i])) =>
                /\ responses[i].outcome = "returned"
                /\ AggregateInvariant(responses[i].payload[1])

\* the three counts, the total and the percentages of a distribution response
RouteDistribution(r) ==
    [positive |-> r.distribution.positive, negative |-> r.distribution.negative,
     neutral |-> r.distribution.neutral, total |-> r.total, percentages |-> r.percentages]

CallDistribution(r) ==
    [positive |-> r.distribution.positive, negative |-> r.distribution.negative,
     neutral |-> r.distribution.neutral, total |-> r.distribution.total,
     percentages |-> r.distribution.percentages]

Distributions ==
    {RouteDistribution(responses[i].payload[1]) : i \in Answered("get_sentiment_distribution")}
        \cup {CallDistribution(responses[i].payload[1]) : i \in Answered("get_distribution")}

\* every distribution query that neither the cache nor the database failed was answered
DistributionsAnswered ==
    \A i \in 1..Len(responses) :
        (responses[i].q.op \in {"get_sentiment_distribution", "get_distribution"}
            /\ ~Failed(responses[i])) => responses[i].outcome = "returned"

\* a percentage is count / total * 100
IsPercentage(pct, count, total) == pct.den /= 0 /\ pct.num * total = count * 100 * pct.den

\* C27: every distribution query that neither the cache nor the database fails is
\* answered, and in the response total = positive + negative + neutral; with
\* total > 0 each percentage is count / total * 100 and the three sum to 100; with
\* total = 0 the three percentages are 0.
C27_DistributionSums ==
    /\ DistributionsAnswered
    /\ \A d \in Distributions :
        /\ d.total = d.positive + d.negative + d.neutral
        /\ d.total > 0 =>
              /\ IsPercentage(d.percentages.positive, d.positive, d.total)
              /\ IsPercentage(d.percentages.negative, d.negative, d.total)
              /\ IsPercentage(d.percentages.neutral, d.neutral, d.total)
        /\ d.total = 0 =>
              /\ d.percentages.positive.num = 0
              /\ d.percentages.negative.num = 0
              /\ d.percentages.neutral.num = 0

\* C28: over a window without analyses the distribution answers positive = negative
\* = neutral = total = 0, numbers and no nulls, with percentages 0, and over an empty
\* Store it answers.
C28_EmptyWindowZeros ==
    /\ analyses = <<>> => DistributionsAnswered
    /\ \A d \in Distributions :
        d.total = 0 =>
            /\ d.positive = 0 /\ d.negative = 0 /\ d.neutral = 0
            /\ d.percentages.positive.num = 0
            /\ d.percentages.negative.num = 0
            /\ d.percentages.neutral.num = 0

\* C29: the health answer is 200 and "healthy" exactly when the Store probe and
\* the Cache probe both succeeded, else 503, "unhealthy" when both failed and
\* "degraded" when one did; the body has status, services and stats, and its
\* service fields say "connected" or "disconnected" and nothing else.
C29_Health ==
    \A i \in Answered("health_check") :
        LET r      == responses[i].payload[1]
            probes == responses[i].probes
        IN  /\ r.status_code = 200 <=> probes.database /\ probes.redis
            /\ r.status_code \in {200, 503}
            /\ r.content.status = "healthy" <=> probes.database /\ probes.redis
            /\ r.content.status = "unhealthy" <=> ~probes.database /\ ~probes.redis
            /\ r.content.status = "degraded" <=> (probes.database /= probes.redis)
            /\ {"status", "services", "stats"} \subseteq DOMAIN r.content
            /\ r.content.services.database = IF probes.database THEN "connected" ELSE "disconnected"
            /\ r.content.services.redis = IF probes.redis THEN "connected" ELSE "disconnected"

\* the database answered "select 1" and failed at a count: degraded, 503
C29_Witness ==
    \E i \in Answered("health_check") :
        /\ responses[i].store_queries = 3
        /\ responses[i].probes = [database |-> FALSE, redis |-> TRUE]
        /\ responses[i].payload[1].status_code = 503
        /\ responses[i].payload[1].content.status = "degraded"
        /\ Len(posts) = 2

\* the posts a GET /api/posts query asks for
Wanted(q) ==
    {i \in 1..Len(posts) :
        /\ q.source /= <<>> => posts[i].source = q.source[1]
        /\ q.sentiment /= <<>> =>
              \E j \in 1..Len(analyses) :
                  /\ analyses[j].post_id = posts[i].post_id
                  /\ analyses[j].sentiment_label = q.sentiment[1]
        /\ q.start_date /= <<>> => posts[i].created_at >= q.start_date[1]
        /\ q.end_date /= <<>> => posts[i].created_at <= q.end_date[1]}

PostOf(item) == CHOOSE i \in 1..Len(posts) : posts[i].post_id = item.post_id

\* the steps of GET /api/posts
C30_Step ==
    Serving("get_posts") =>
        LET q == request[1].q IN
        /\ request[1].pc = "called" /\ request' /= <<>> /\ request'[1].pc = "page" =>
              request'[1].locals.total = Cardinality(Wanted(q))
        /\ request[1].pc = "page" /\ Answers =>
              LET r     == Last(responses').payload[1]
                  n     == Len(r.posts)
                  shown == {PostOf(r.posts[k]) : k \in 1..n}
              IN  /\ r.total = request[1].locals.total
                  /\ n <= q.limit
                  /\ n = Max(0, Min(q.limit, Cardinality(Wanted(q)) - q.offset))
                  /\ shown \subseteq Wanted(q)
                  /\ Cardinality(shown) = n
                  /\ \A k \in 1..(n - 1) :
                        posts[PostOf(r.posts[k])].created_at >= posts[PostOf(r.posts[k + 1])].created_at
                  /\ n > 0 =>
                        /\ Cardinality({i \in Wanted(q) :
                               posts[i].created_at > posts[PostOf(r.posts[1])].created_at}) <= q.offset
                        /\ Cardinality({i \in Wanted(q) :
                               posts[i].created_at >= posts[PostOf(r.posts[1])].created_at}) > q.offset
                  /\ (q.limit = 1 /\ q.offset = 0 /\ Wanted(q) = 1..Len(posts) /\ posts /= <<>>) =>
                        /\ n = 1
                        /\ \A i \in 1..Len(posts) :
                              posts[i].created_at <= posts[PostOf(r.posts[1])].created_at

\* C30: GET /api/posts answers at most limit posts, by created_at descending from
\* offset on, and a total that counts every post matching the filters whatever
\* limit and offset are; limit = 1, offset = 0 and no filter answer a post whose
\* created_at is the greatest of the Store.
C30_PostsPage == [][C30_Step]_vars

\* the second of two posts is the more recent one and is the one answered
C30_Witness ==
    \E i \in Answered("get_posts") :
        LET q == responses[i].q
            r == responses[i].payload[1]
        IN  /\ q.limit = 1 /\ q.offset = 0
            /\ q.source = <<>> /\ q.sentiment = <<>> /\ q.start_date = <<>> /\ q.end_date = <<>>
            /\ Len(posts) = 2
            /\ posts[1].created_at < posts[2].created_at
            /\ r.total = 2
            /\ Len(r.posts) = 1
            /\ r.posts[1].post_id = posts[2].post_id

\* ------------------------------------------------------------- the distribution route: properties
\* C31: GET /api/sentiment/distribution with its default parameters (hours = 24,
\* no source) is answered with 200, and the answer has timeframe_hours, a
\* distribution object and, inside distribution, a percentages object.
C31_PercentagesInsideDistribution ==
    \A i \in 1..Len(responses) :
        (responses[i].q.op = "get_sentiment_distribution" /\ ~Failed(responses[i])
            /\ responses[i].q.hours = 24 /\ responses[i].q.source = <<>>) =>
            LET r == responses[i].payload[1] IN
            /\ responses[i].outcome = "returned"
            /\ "timeframe_hours" \in DOMAIN r
            /\ "distribution" \in DOMAIN r
            /\ "percentages" \in DOMAIN r.distribution

\* ------------------------------------------------------------- AnalyzerSpec
\* process_message of one delivered entry, from its decoding to the commit of its
\* rows, over models that answer any label and any score of the sets below.
RawLabels ==
    {<<"P","O","S","I","T","I","V","E">>, <<"N","e","g","a","t","i","v","e">>,
     <<"L","A","B","E","L","_","1">>}

\* scores in hundredths: below 0, inside [0, 1], above 1
RawScores == {-20, 95, 120}

SentimentResults == [label : RawLabels, score : RawScores]

EmotionItems == [label : {"JOY", "Happiness", "Disgust"}, score : RawScores]

\* return_all_scores=True: a list of items, here of up to two
EmotionResults ==
    {<<>>} \cup {<<a>> : a \in EmotionItems} \cup {<<a, b>> : a \in EmotionItems, b \in EmotionItems}

\* the message of the remote LLM: no JSON object, or an object with or without its
\* keys, the confidence a number or not
Replies ==
    {[is_object |-> FALSE, sentiment_label |-> <<>>, confidence_score |-> <<>>]}
        \cup [is_object        : {TRUE},
              sentiment_label  : {<<>>} \cup {<<l>> : l \in RawLabels},
              confidence_score : {<<>>, Confidence(-20), Confidence(120),
                                  <<[number |-> FALSE, value |-> 0]>>}]

Classifiers ==
    [sentiment_pipeline : SentimentResults, emotion_pipeline : EmotionResults,
     external_reply : Replies]

\* xreadgroup has just delivered the one entry of the stream
AnalyzerInit ==
    /\ stream \in {<<M1>>, <<M2>>}
    /\ last_delivered = 1
    /\ acked = {}
    /\ calls = [e \in Entries |-> IF e = 1 THEN [NoCall EXCEPT !.pc = "decode"] ELSE NoCall]
    /\ posts = <<>>
    /\ analyses = <<>>
    /\ now = 1
    /\ pubsub = <<>>
    /\ \E c \in Classifiers : classifier = <<c>>
    /\ processor = ProcessorOff
    /\ messages_processed = 0
    /\ messages_failed = 0
    /\ run_pc = "gather"
    /\ backoff = BackoffStart
    /\ slept = 0
    /\ polls = 0
    /\ batch_size = BatchSize
    /\ QueriesOff
    /\ AlertOff
    /\ GatewayStart

AnalyzerNext ==
    \E e \in Entries :
        \/ decode(e)
        \/ local_sentiment(e)
        \/ external_sentiment(e)
        \/ emotion_detection(e)
        \/ insert_post(e)
        \/ insert_analysis(e)
        \/ commit(e)

AnalyzerSpec == AnalyzerInit /\ [][AnalyzerNext]_vars

\* ------------------------------------------------------------- the analyzers: properties
SentimentLabels == {"positive", "negative", "neutral"}

Emotions == {"joy", "sadness", "anger", "fear", "surprise", "neutral"}

\* C32: every Analysis row the worker writes has its sentiment_label among
\* positive, negative and neutral, its confidence_score within [0, 1] and its
\* emotion among joy, sadness, anger, fear, surprise and neutral, whatever the
\* models answered.
C32_AnalysisRowRanges ==
    \A i \in 1..Len(analyses) :
        /\ analyses[i].sentiment_label \in SentimentLabels
        /\ analyses[i].confidence_score >= 0
        /\ analyses[i].confidence_score <= 100
        /\ analyses[i].emotion \in Emotions

\* the local pipeline answered LABEL_1 with a score of 1.2, the emotion pipeline
\* Disgust: the row stored says neutral, 1.0, neutral
C32_Witness ==
    /\ Len(analyses) = 1
    /\ classifier /= SampleModels
    /\ classifier[1].sentiment_pipeline = [label |-> <<"L","A","B","E","L","_","1">>, score |-> 120]
    /\ classifier[1].emotion_pipeline = <<[label |-> "Disgust", score |-> 120]>>
    /\ stream[1].content = LoveText
    /\ analyses[1].model_name = LocalModelName
    /\ analyses[1].sentiment_label = "neutral"
    /\ analyses[1].confidence_score = 100
    /\ analyses[1].emotion = "neutral"

\* ------------------------------------------------------------- the aggregate route: properties
\* the analyses of a source analyzed within [start_dt, end_dt]
InRange(start_dt, end_dt, source) ==
    {i \in 1..Len(analyses) :
        /\ analyses[i].analyzed_at >= start_dt
        /\ analyses[i].analyzed_at <= end_dt
        /\ \E j \in 1..Len(posts) :
              /\ posts[j].post_id = analyses[i].post_id
              /\ source /= <<>> => posts[j].source = source[1]}

C33_Step ==
    Serving("get_sentiment_aggregate") /\ request' = <<>> =>
        LET q        == request[1].q
            end_dt   == IF q.end_date = <<>> THEN now ELSE q.end_date[1]
            start_dt == IF q.start_date = <<>> THEN end_dt - Day ELSE q.start_date[1]
        IN  /\ Last(responses').range = [start_dt |-> start_dt, end_dt |-> end_dt]
            /\ Answers =>
                  LET r == Last(responses').payload[1] IN
                  /\ r.end_date = isoformat_Z(end_dt)
                  /\ r.start_date = isoformat_Z(start_dt)
                  /\ r.summary.total_posts = Cardinality(InRange(start_dt, end_dt, q.source))

\* C33: an aggregate query without end ends at the current time; without start it
\* starts 24 hours before its end, the end supplied if one is and not the current
\* time: that is the range the route has when it builds its statement, and the
\* range an answer names and counts the analyses of.
C33_AggregateDefaults == [][C33_Step]_vars

\* an end of a day ago and no start: the route was called at QueryNow and its range
\* is the day before that end
C33_Witness ==
    \E i \in 1..Len(responses) :
        /\ responses[i].q.op = "get_sentiment_aggregate"
        /\ responses[i].q.start_date = <<>>
        /\ responses[i].q.end_date = <<QueryNow - Day>>
        /\ responses[i].at = QueryNow
        /\ responses[i].range = [start_dt |-> QueryNow - 2 * Day, end_dt |-> QueryNow - Day]

\* ------------------------------------------------------------- HelloSpec
\* the push gateway with one post event published, and clients that connect and may
\* go away while their hello frame is being sent
HelloNext ==
    \/ pubsub = <<>> /\ event_published
    \/ \E w \in Sockets : handler[w].pc = "hello" /\ client_closes(w)
    \/ \E w \in Sockets : websocket_endpoint(w)

HelloSpec == GatewayInit /\ [][HelloNext]_vars

\* ------------------------------------------------------------- the hello frame: properties
Pushed == {"new_post", "metrics_update"}

\* C34: no new_post and no metrics_update frame reaches a subscriber before its
\* "connected" frame, although its socket is registered before that frame is sent
\* and the producers of the other connections broadcast to every registered socket.
C34_HelloFirst ==
    \A w \in Sockets :
        \A k \in 1..Len(websockets[w].received) :
            websockets[w].received[k].type \in Pushed =>
                \E j \in 1..(k - 1) : websockets[w].received[j].type = "connected"

\* a socket whose handler still waits for the hello send_json to return has been
\* sent a new_post frame by the broadcast of another handler, after its hello frame
C34_Witness ==
    \E w \in Sockets :
        /\ handler[w].pc = "hello"
        /\ w \notin subscribed
        /\ Len(websockets[w].received) >= 2
        /\ websockets[w].received[1].type = "connected"
        /\ websockets[w].received[2].type = "new_post"

\* ------------------------------------------------------------- the worker: more properties
\* C35: an entry whose content is empty or only whitespace, for which both
\* sentiment analyzers raise ValueError, is acknowledged as poison when its
\* process_message call returns.
C35_BlankContentAcked ==
    \A e \in 1..Len(stream) :
        ("content" \in DOMAIN stream[e] /\ strip_is_empty(stream[e].content) /\ Returned(e)) =>
            e \in acked

\* an xreadgroup call returns nothing, and run() is back at xreadgroup
EmptyAnswer == run_pc = "read" /\ run_pc' = "read" /\ polls' /= polls

\* the tasks of an answered batch are gathered, and run() is back at xreadgroup
BatchGathered == run_pc = "gather" /\ run_pc' = "read"

C36_Step == (EmptyAnswer \/ BatchGathered) => backoff' = BackoffStart

\* C36: in run(), after an xreadgroup call that completes without a connection
\* error, with entries or with none, the backoff is 1 s again before the next call.
C36_BackoffResetAfterRead == [][C36_Step]_vars

\* ------------------------------------------------------------- TtlSpec
\* both cached functions of the aggregator asked again and again while posts are
\* persisted and the minutes pass
TtlCalls ==
    {[op |-> "get_distribution", hours |-> 1, source |-> <<>>, use_cache |-> TRUE],
     [op |-> "get_aggregate", period |-> "minute", start_dt |-> QueryNow - Day,
      end_dt |-> QueryNow + Day, source |-> <<>>, use_cache |-> TRUE]}

TtlNext ==
    \/ \E q \in TtlCalls : query_issued(q)
    \/ post_persisted("twitter", "negative")
    \/ minute_passes
    \/ get_distribution_call
    \/ get_aggregate_call

TtlSpec == CacheInit /\ [][TtlNext]_vars

\* ------------------------------------------------------------- the cache: more properties
CacheKey(q) ==
    IF q.op = "get_distribution"
    THEN _distribution_cache_key(q.hours, q.source)
    ELSE _aggregate_cache_key(q.period, q.start_dt, q.end_dt, q.source)

\* a call that was answered from the cache, and one that computed and wrote
Hit(r) == r.outcome = "returned" /\ r.q.use_cache /\ r.store_queries = 0

Wrote(r) == r.outcome = "returned" /\ r.q.use_cache /\ r.store_queries > 0

\* the payload but for the marks get_distribution puts on a hit
Stored(r) ==
    IF r.q.op = "get_distribution"
    THEN [r.payload[1] EXCEPT !.cached = FALSE, !.cached_at = 0]
    ELSE r.payload[1]

\* an entry changes only where a miss writes it, and then it expires 60 s later;
\* a hit leaves the cache as it is; an entry goes away only as the clock moves
C37_Step ==
    /\ \A key \in DOMAIN cache' :
          (key \notin DOMAIN cache \/ cache'[key] /= cache[key]) =>
              /\ request /= <<>> /\ request[1].pc = "setex" /\ Answers
              /\ key = CacheKey(request[1].q)
              /\ cache'[key].expires_at = now + CacheTtl \div Minute
    /\ (request /= <<>> /\ request[1].pc = "called" /\ Answers) => cache' = cache
    /\ ~(DOMAIN cache \subseteq DOMAIN cache') => now' > now

\* every hit repeats a payload that was written less than 60 s before
C37_Served ==
    \A j \in 1..Len(responses) :
        Hit(responses[j]) =>
            \E i \in 1..(j - 1) :
                /\ Wrote(responses[i])
                /\ CacheKey(responses[i].q) = CacheKey(responses[j].q)
                /\ Stored(responses[i]) = Stored(responses[j])
                /\ responses[j].at < responses[i].at + CacheTtl \div Minute

\* C37: an entry written by get_aggregate or get_distribution expires 60 s after it
\* was written and a hit neither rewrites it nor extends its life, so no payload is
\* served from the cache more than 60 s after the write that stored it. (No call
\* gets as far as writing an entry, see func_case_raises: the formula holds with
\* nothing to hold of.)
C37_TtlFixed == [][C37_Step]_vars /\ []C37_Served

\* ------------------------------------------------------------- the worker's counters
\* the call of entry e has executed its return statement: it has returned, or its
\* "return False" of line 99 waits for the database session to be closed
Completed(e) ==
    \/ calls[e].pc = "done"
    \/ calls[e].pc = "exit" /\ calls[e].db_exc /= "none"

\* the process_message call of entry e executes its return statement in this step
Completes(e) ==
    /\ ~Completed(e)
    /\ \/ calls'[e].pc = "done"
       \/ calls'[e].pc = "exit" /\ calls'[e].db_exc /= "none"

\* a returning call adds 1 to one counter and leaves the other, and returns True
\* exactly with messages_processed; no other step touches the counters
C38_Step ==
    /\ \A e \in Entries :
          Completes(e) =>
              /\ \/ /\ messages_processed' = messages_processed + 1
                    /\ messages_failed' = messages_failed
                    /\ calls'[e].ret = "True"
                 \/ /\ messages_failed' = messages_failed + 1
                    /\ messages_processed' = messages_processed
                    /\ calls'[e].ret /= "True"
              /\ \A o \in Entries \ {e} : ~Completes(o)
    /\ (\A e \in Entries : ~Completes(e)) =>
          /\ messages_processed' = messages_processed
          /\ messages_failed' = messages_failed

C38_Sum ==
    /\ messages_processed = Cardinality({e \in Entries : Completed(e) /\ calls[e].ret = "True"})
    /\ messages_failed = Cardinality({e \in Entries : Completed(e) /\ calls[e].ret /= "True"})
    /\ messages_processed + messages_failed = Cardinality({e \in Entries : Completed(e)})

\* C38: every process_message call that returns has added exactly 1 to exactly one
\* of messages_processed and messages_failed, and returned True exactly when it was
\* messages_processed; so the two counters add up to the number of calls that have
\* returned, also while the tasks of a batch interleave.
C38_CountersCountCalls == [][C38_Step]_vars /\ []C38_Sum

\* the tasks of one batch interleaved: the second entry's call has returned False
\* while the first entry's call, started before it, still waits for its xack
C38_Witness ==
    /\ MaxEntries >= 2
    /\ run_pc = "gather"
    /\ calls[1].pc = "xack"
    /\ Returned(2) /\ calls[2].ret = "False"
    /\ messages_failed = 1 /\ messages_processed = 0

\* ------------------------------------------------------------- the monitoring loop
\* the round raises: check_thresholds while it builds its statement, or save_alert
RoundRaises ==
    \/ func_case_raises
    \/ Fires(alert_row) /\ ~(save_alert_keywords \subseteq SentimentAlert_columns)

C39_Step ==
    /\ alert_pc = "except" => alerts' = alerts /\ alert_pc' = "sleep"
    /\ (alert_pc = "sleep" /\ RoundRaises) => alert_pc' = "check"

\* C39: run_monitoring_loop is not stopped by an exception of check_thresholds or
\* save_alert: the exception of a round is swallowed, nothing is persisted in that
\* round, and the next round follows after check_interval_seconds.
C39_LoopSurvives == [][C39_Step]_vars

\* ------------------------------------------------------------- processor.py: run
\* SentimentWorker.run of processor.py reads the stream with XREAD from its own
\* cursor, without a consumer group. An entry is its position in the stream; the
\* cursor "0-0" is position 0.
xread_count == 10

\* post_data.get("content", "")
content_of(m) == IF "content" \in DOMAIN m THEN m.content ELSE <<>>

\* XREAD {stream: last_id} COUNT count: the entries after last_id, oldest first
xread(last_id, count) ==
    [k \in 1..Min(Len(stream) - last_id, count) |-> last_id + k]

\* the entry the loop body is working on
message_id == Last(processor.taken)

processor_frame == <<worker_vars, classifier, alert_vars, gateway_vars, query_vars>>

\* lines 104-112 and 141-143: xread raises (-> "Worker error", sleep 5), answers nothing
\* (-> sleep 1, continue) or answers a response
xread_call ==
    /\ processor.pc = "xread"
    /\ \E connection_error \in BOOLEAN :
        IF connection_error
        THEN processor' = [processor EXCEPT !.pc = "sleep"]
        ELSE LET response == xread(processor.last_id, xread_count) IN
             IF response = <<>>
             THEN processor' = [processor EXCEPT !.pc = "sleep"]
             ELSE processor' = [processor EXCEPT !.pc = "for", !.messages = response]
    /\ UNCHANGED processor_frame

\* asyncio.sleep(1) of line 111 or asyncio.sleep(5) of line 143, then the next xread
xread_sleep ==
    /\ processor.pc = "sleep"
    /\ processor' = [processor EXCEPT !.pc = "xread"]
    /\ UNCHANGED processor_frame

\* the loop body that leaves the cursor where it was
next_message_cursor_kept ==
    /\ processor.pc = "for"
    /\ processor.messages /= <<>>
    /\ LET e == Head(processor.messages) IN
       processor' = [processor EXCEPT
                        !.taken = Append(@, e),
                        !.messages = Tail(@),
                        !.pc = IF strip_is_empty(content_of(stream[e]))
                               THEN "for" ELSE "sentiment"]
    /\ UNCHANGED processor_frame

\* lines 114-125: the next message of the response: "last_id = message_id" first,
\* then the decoding, and an empty post is skipped
next_message ==
    /\ processor.pc = "for"
    /\ processor.messages /= <<>>
    /\ LET e == Head(processor.messages) IN
       processor' = [processor EXCEPT
                        !.last_id = e,
                        !.taken = Append(@, e),
                        !.messages = Tail(@),
                        !.pc = IF strip_is_empty(content_of(stream[e]))
                               THEN "for" ELSE "sentiment"]
    /\ UNCHANGED processor_frame

\* the response is exhausted: back to "while True"
messages_done ==
    /\ processor.pc = "for"
    /\ processor.messages = <<>>
    /\ processor' = [processor EXCEPT !.pc = "xread"]
    /\ UNCHANGED processor_frame

\* an exception in the loop body: the handler of lines 141-143; the rest of the
\* response is given up with the frame of the for loop
worker_error ==
    [processor EXCEPT !.pc = "sleep",
                      !.raised = @ \cup {message_id},
                      !.given_up = @ \cup {processor.messages[k] : k \in 1..Len(processor.messages)},
                      !.messages = <<>>]

\* line 128: "await sentiment_analyser.analyze_sentiment(post_text)" answers or raises
processor_sentiment ==
    /\ processor.pc = "sentiment"
    /\ \E analysis_raises \in BOOLEAN :
        processor' = IF analysis_raises THEN worker_error ELSE [processor EXCEPT !.pc = "emotion"]
    /\ UNCHANGED processor_frame

\* line 129: "await emotion_analyser.analyze_emotion(post_text)" of the fallback
\* EmotionAnalyzer of lines 13-31, which answers "neutral" whatever the text
processor_emotion ==
    /\ processor.pc = "emotion"
    /\ processor' = [processor EXCEPT !.pc = "save"]
    /\ UNCHANGED processor_frame

\* processor.py:49-57 and 60-74: the rows save_post_and_analysis inserts for the
\* decoded entry, with the defaults of post_data.get and the hard defaults; the
\* sentiment is that of the module's SentimentAnalyzer(), the emotion that of the
\* fallback EmotionAnalyzer of lines 13-31 (backend.services.emotion_analyser is
\* no module of the repository)
processor_post_row(m) ==
    [post_id     |-> m.post_id,
     source      |-> IF "source" \in DOMAIN m THEN m.source ELSE "unknown",
     content     |-> content_of(m),
     author      |-> IF "author" \in DOMAIN m THEN m.author ELSE "anonymous",
     created_at  |-> IF "created_at" \in DOMAIN m THEN <<m.created_at>> ELSE <<>>,
     ingested_at |-> now]

processor_analysis_row(m) ==
    LET sentiment_result == analyze_sentiment_local(content_of(m)) IN
    [post_id          |-> m.post_id,
     model_name       |-> sentiment_result.model_name,
     sentiment_label  |-> sentiment_result.sentiment_label,
     confidence_score |-> sentiment_result.confidence_score,
     emotion          |-> "neutral",
     analyzed_at      |-> now]

\* lines 134-139 and 40-79: save_post_and_analysis is awaited: both rows are
\* committed, or an exception (post_data["post_id"] missing, a database error, the
\* unique post_id taken) rolls back, is printed and swallowed; the loop goes on
processor_save ==
    /\ processor.pc = "save"
    /\ processor' = [processor EXCEPT !.pc = "for", !.saved = Append(@, message_id)]
    /\ LET m == stream[message_id] IN
       \E db_error \in BOOLEAN :
        IF db_error \/ "post_id" \notin DOMAIN m
        THEN UNCHANGED <<posts, analyses>>
        ELSE IF unique_violation(m.post_id)
             THEN UNCHANGED <<posts, analyses>>
             ELSE /\ posts' = Append(posts, processor_post_row(m))
                  /\ analyses' = Append(analyses, processor_analysis_row(m))
    /\ UNCHANGED <<stream, last_delivered, acked, calls, now, pubsub, messages_processed,
                   messages_failed, run_pc, backoff, slept, polls, batch_size>>
    /\ UNCHANGED <<classifier, alert_vars, gateway_vars, query_vars>>

processor_run ==
    \/ xread_call
    \/ xread_sleep
    \/ next_message
    \/ messages_done
    \/ processor_sentiment
    \/ processor_emotion
    \/ processor_save

\* ------------------------------------------------------------- ProcessorSpec
\* run() of processor.py over a stream that grows while it runs: a short post, an
\* empty post and an entry without content
NoContent == [post_id |-> "p6", source |-> "news"]

ProcessorMessages == {M2, M5, NoContent}

ProcessorInit ==
    /\ stream = <<>>
    /\ last_delivered = 0
    /\ acked = {}
    /\ calls = [e \in Entries |-> NoCall]
    /\ posts = <<>>
    /\ analyses = <<>>
    /\ now = 1
    /\ pubsub = <<>>
    /\ classifier = SampleModels
    /\ processor = [ProcessorOff EXCEPT !.pc = "xread"]
    /\ messages_processed = 0
    /\ messages_failed = 0
    /\ run_pc = "read"
    /\ backoff = BackoffStart
    /\ slept = 0
    /\ polls = 0
    /\ batch_size = BatchSize
    /\ QueriesOff
    /\ AlertOff
    /\ GatewayStart

ProcessorNext ==
    \/ \E m \in ProcessorMessages : publish_post(m)
    \/ processor_run

ProcessorSpec == ProcessorInit /\ [][ProcessorNext]_vars

\* ------------------------------------------------------------- the cursor: properties
Increasing(seq) == \A i \in 1..Len(seq) : \A j \in 1..Len(seq) : i < j => seq[i] < seq[j]

\* the cursor does not move back
C40_Forward == processor'.last_id >= processor.last_id

\* the loop takes up the entries in stream order and each at most once, hands each
\* to save_post_and_analysis at most once, has its cursor on the last entry it took
\* up, and holds no entry of a response that the cursor has passed
C40_Once ==
    /\ Increasing(processor.taken)
    /\ Increasing(processor.saved)
    /\ processor.taken /= <<>> => processor.last_id = Last(processor.taken)
    /\ \A k \in 1..Len(processor.messages) : processor.messages[k] > processor.last_id
    /\ \A e \in processor.raised :
          Cardinality({i \in 1..Len(processor.taken) : processor.taken[i] = e}) = 1

\* C40: in run() of processor.py the cursor last_id only moves forward in stream
\* order and every entry is handled at most once: no entry is read again once the
\* cursor has passed it, not even the entry whose analysis raised.
C40_CursorForward == [][C40_Forward]_vars /\ []C40_Once

\* the analysis of the first entry raised while the second was in the same response;
\* the second was read again, handed to save_post_and_analysis and stored, the
\* first was not
C40_Witness ==
    /\ 1 \in processor.raised
    /\ 2 \in processor.given_up
    /\ processor.taken = <<1, 2>>
    /\ processor.saved = <<2>>
    /\ processor.pc = "xread"
    /\ Len(posts) = 1 /\ posts[1].post_id = stream[2].post_id
    /\ Len(analyses) = 1

====
